---- MODULE Spec2Model ----
(***************************************************************************)
(* Placement-tracking backend: the SystemStats counter maintainer          *)
(* (utils/system_stats.py), student creation (routes/students.py) and the  *)
(* cascading student deletion (services/student_deletion.py), over a       *)
(* document store with atomic batched writes.                              *)
(***************************************************************************)
EXTENDS Integers, Sequences, FiniteSets, TLC

\* ------------------------------------------------------------------ bounds
\* stamped writes to systemStats/dashboard in one behaviour
MaxClock == 2
\* largest |value| passed to increment_stat / decrement_stat / set_stat
MaxDelta == 2

\* concurrent requests
Procs == {"p1", "p2"}

Max(a, b) == IF a >= b THEN a ELSE b

\* ------------------------------------------------------------- identifiers
StudentIds == {"s1", "s2", "s3"}
CompanyIds == {"c1", "c2", "c3", "c4", "c5", "c6"}
YearIds == {2025, 2026}
\* a companyStatus entry without a usable year (`if year:` is false)
NoYear == 0

CounterFields ==
    {"totalYears", "totalCompanies", "completedCompanies", "runningCompanies",
     "totalStudents", "totalPlaced", "totalNotPlaced", "totalOffers"}
\* a field name that is none of the eight counters
ExtraField == "extraStat"
Fields == CounterFields \cup {ExtraField}
\* the field names the modelled callers pass: to increment_stat and
\* decrement_stat, and to set_stat
CallFields == {"totalStudents"}
SetFields == {"totalStudents", ExtraField}

VARIABLES
    students,     \* students/<id> documents
    usedIds,      \* student document identifiers already allocated
    companies,    \* companies/<id> documents
    years,        \* years/<y> documents
    systemStats,  \* the systemStats/dashboard document
    now,          \* clock read by datetime.utcnow() / SERVER_TIMESTAMP
    placements,   \* companies/<c>/placements/<s> documents, as <<c, s>>
    rounds,       \* number of companies/<c>/rounds/<r> documents of each c
    roundData,    \* companies/<c>/rounds/<r>/data rows, as <<c, r, studentId, k>>
    call,         \* per request: position and locals of the call in progress
    cas,          \* per request: position and locals of a cascading deletion
    last,         \* the call that returned most recently, with what it saw
    rebuilt,      \* systemStats was rebuilt from a scan of the current
                  \* collections and no counter call has written to it since
    users,        \* users/<id> documents
    issued,       \* per user: the refresh tokens its logins returned, in the
                  \* order in which they were stored
    auth          \* per request: position, locals and response of a login
                  \* or refresh request

vars == <<students, usedIds, companies, years, systemStats, now,
          placements, rounds, roundData, call, cas, last, rebuilt,
          users, issued, auth>>

\* the users collection and the requests of the authentication routes
authVars == <<users, issued, auth>>

\* the documents a cascading deletion reads and writes
cascadeDocs == <<students, companies, years, placements, roundData>>

\* ------------------------------------------------------------ documents
ZeroVals == [f \in Fields |-> 0]

\* systemStats/dashboard before it is created
NoStats ==
    [exists |-> FALSE, has |-> {}, val |-> ZeroVals,
     lastUpdated |-> 0, initializedAt |-> 0]

\* a companyStatus entry; present = FALSE when the map has no such key
NoEntry == [present |-> FALSE, year |-> NoYear, finalSelection |-> FALSE]
Entry(y, sel) == [present |-> TRUE, year |-> y, finalSelection |-> sel]
EmptyStatus == [c \in CompanyIds |-> NoEntry]

\* the name a student of a given roll number carries
StudentName(roll) ==
    CASE roll = "r1" -> "n1" [] roll = "r2" -> "n2" [] OTHER -> "n3"

\* currentStatus "none" stands for a missing or unrecognised value
NoStudent ==
    [exists |-> FALSE, name |-> "", rollNumber |-> "", email |-> "",
     currentStatus |-> "none", totalOffers |-> 0, companyStatus |-> EmptyStatus]

\* status "unknown" and companyName "" stand for a missing field
NoCompany ==
    [exists |-> FALSE, companyName |-> "", status |-> "unknown", year |-> NoYear,
     totalApplied |-> 0, totalPlaced |-> 0, updatedAt |-> 0]

NoYearDoc ==
    [exists |-> FALSE, totalStudentsParticipated |-> 0, totalPlaced |-> 0,
     cwKeys |-> {}, cwPlaced |-> [c \in CompanyIds |-> 0], updatedAt |-> 0]

\* the store as a cascading deletion of student_id found it
NoPre ==
    [companies |-> [c \in CompanyIds |-> NoCompany],
     years |-> [y \in YearIds |-> NoYearDoc],
     placements |-> {}, roundData |-> {}, student |-> NoStudent,
     student_id |-> ""]

\* stats_doc.to_dict().get(field, 0)
StatGet(doc, field) == IF field \in doc.has THEN doc.val[field] ELSE 0

\* new_value = max(0, current_value + value), without the floor (mutant)
ClampedValue_nofloor(current_value, value) == current_value + value

\* new_value = max(0, current_value + value)
ClampedValue(current_value, value) == Max(0, current_value + value)

\* the skip test never passing (mutant)
SkipUpdate_never(new_value, current_value) == FALSE

\* the skip test `new_value == current_value and current_value == 0`
SkipUpdate(new_value, current_value) ==
    new_value = current_value /\ current_value = 0

\* initial_value of the except branch, always 0 (mutant)
InitialValue_zero(value) == 0

\* initial_value of the except branch
InitialValue(value) == IF value < 0 THEN 0 ELSE value

\* the set without merge: the document is replaced (mutant)
SetMerge_replace(doc, field, v, t) ==
    [exists |-> TRUE, has |-> {field},
     val |-> [ZeroVals EXCEPT ![field] = v],
     lastUpdated |-> t, initializedAt |-> 0]

\* stats_ref.set({field: v, 'lastUpdated': t}, merge=True)
SetMerge(doc, field, v, t) ==
    [exists |-> TRUE, has |-> doc.has \cup {field},
     val |-> [doc.val EXCEPT ![field] = v],
     lastUpdated |-> t, initializedAt |-> doc.initializedAt]

\* the update as an atomic add of -1 to the stored value (mutant)
UpdateField_atomic(doc, field, v, t) ==
    [doc EXCEPT !.has = @ \cup {field}, !.val[field] = StatGet(doc, field) - 1,
                !.lastUpdated = t]

\* stats_ref.update({field: v, 'lastUpdated': t}) on an existing document
UpdateField(doc, field, v, t) ==
    [doc EXCEPT !.has = @ \cup {field}, !.val[field] = v, !.lastUpdated = t]

\* stats_ref.update({field: firestore.Increment(value), 'lastUpdated': t})
UpdateIncrement(doc, field, value, t) ==
    UpdateField(doc, field, StatGet(doc, field) + value, t)

\* ----------------------------------------------------- full collection scan
RECURSIVE SumOffers(_, _)
\* total_offers += offers, over the streamed students
SumOffers(ss, ids) ==
    IF ids = {} THEN 0
    ELSE LET s == CHOOSE x \in ids : TRUE
         IN ss[s].totalOffers + SumOffers(ss, ids \ {s})

\* the not_placed_count branch counting only status 'not_placed' (mutant)
NotPlacedCount_strict(ss) ==
    Cardinality({s \in StudentIds :
        ss[s].exists /\ ss[s].currentStatus = "not_placed"})

\* not_placed_count: the else branch of `if status == 'placed'`
NotPlacedCount(ss) ==
    Cardinality({s \in StudentIds :
        ss[s].exists /\ ss[s].currentStatus # "placed"})

\* the counters initialize_system_stats computes from the three streams
ScanStats(ys, cs, ss) ==
    [f \in Fields |->
        CASE f = "totalYears" -> Cardinality({y \in YearIds : ys[y].exists})
          [] f = "totalCompanies" ->
                Cardinality({c \in CompanyIds : cs[c].exists})
          [] f = "completedCompanies" ->
                Cardinality({c \in CompanyIds :
                    cs[c].exists /\ cs[c].status = "completed"})
          [] f = "runningCompanies" ->
                Cardinality({c \in CompanyIds :
                    cs[c].exists /\ cs[c].status = "running"})
          [] f = "totalStudents" ->
                Cardinality({s \in StudentIds : ss[s].exists})
          [] f = "totalPlaced" ->
                Cardinality({s \in StudentIds :
                    ss[s].exists /\ ss[s].currentStatus = "placed"})
          [] f = "totalNotPlaced" -> NotPlacedCount(ss)
          [] f = "totalOffers" ->
                SumOffers(ss, {s \in StudentIds : ss[s].exists})
          [] OTHER -> 0]

\* the rebuild merged into the stored document (mutant)
SetWhole_merge(scan, t) ==
    [exists |-> TRUE, has |-> systemStats.has \cup CounterFields,
     val |-> [f \in Fields |->
                IF f \in CounterFields THEN scan[f] ELSE systemStats.val[f]],
     lastUpdated |-> t, initializedAt |-> t]

\* the rebuild as a deletion of the stored document (mutant)
SetWhole_delete(scan, t) == NoStats

\* db.collection('systemStats').document('dashboard').set(stats_data)
SetWhole(scan, t) ==
    [exists |-> TRUE, has |-> CounterFields,
     val |-> [f \in Fields |-> IF f \in CounterFields THEN scan[f] ELSE 0],
     lastUpdated |-> t, initializedAt |-> t]

\* what get_system_stats returns
NoResult == [has |-> {}, val |-> ZeroVals, lastUpdated |-> 0, initializedAt |-> 0]
\* the default record without totalOffers (mutant)
DefaultStats_partial ==
    [has |-> CounterFields \ {"totalOffers"}, val |-> ZeroVals,
     lastUpdated |-> 0, initializedAt |-> 0]

DefaultStats ==
    [has |-> CounterFields, val |-> ZeroVals, lastUpdated |-> 0,
     initializedAt |-> 0]
ToDict(doc) ==
    [has |-> doc.has, val |-> doc.val, lastUpdated |-> doc.lastUpdated,
     initializedAt |-> doc.initializedAt]

\* ------------------------------------------------------ dashboard response
\* one entry of a companyWise map; "" stands for a name the entry lacks
NoProjection == [companyName |-> "", placed |-> 0, status |-> ""]

\* the locals and the response parts of get_dashboard_summary
NoDash ==
    [stats |-> NoResult, year |-> NoYear, yearFound |-> FALSE,
     totalPlaced |-> 0, cwKeys |-> {},
     companyWise |-> [c \in CompanyIds |-> NoProjection],
     repaired |-> FALSE, recent |-> {}, reads |-> 0, again |-> FALSE]

\* ------------------------------------------------------- request bookkeeping
\* the dictionary a cascade returns; keys are the names it carries
NoSummary ==
    [keys |-> {}, studentId |-> "", studentName |-> "",
     companiesAffected |-> 0, roundsDeleted |-> 0, placementsDeleted |-> 0,
     yearsAffected |-> 0]

IdleCall ==
    [pc |-> "idle", fn |-> "none", field |-> ExtraField, value |-> 0,
     existed |-> FALSE, had |-> FALSE, stamp |-> 0,
     current_value |-> 0, new_value |-> 0, scan |-> ZeroVals,
     quiet |-> FALSE, rollNumber |-> "", email |-> "", failed |-> FALSE,
     dash |-> NoDash]

NoLast ==
    [p |-> "none", fn |-> "none", field |-> ExtraField, value |-> 0,
     existed |-> FALSE, had |-> FALSE, stamp |-> 0, current_value |-> 0,
     outcome |-> "none", quiet |-> FALSE, result |-> NoResult,
     summary |-> NoSummary, failed |-> FALSE, dash |-> NoDash]

\* what a call on `field` finds at its first store call: whether the
\* document and the field exist, the field's value and lastUpdated
Found(c, field) ==
    [c EXCEPT !.existed = systemStats.exists,
              !.had = field \in systemStats.has,
              !.stamp = systemStats.lastUpdated,
              !.current_value = StatGet(systemStats, field)]

\* the return of a call: its arguments, what it found and how it ended
Returned(p, c, outcome) ==
    [NoLast EXCEPT !.p = p, !.fn = c.fn, !.field = c.field, !.value = c.value,
                   !.existed = c.existed, !.had = c.had, !.stamp = c.stamp,
                   !.current_value = c.current_value, !.outcome = outcome,
                   !.failed = c.failed]

\* a write by request p ends the quiet period of every other request, and
\* with it what a request remembers of the store before a failed cascade
Disturb(c, p) ==
    [q \in Procs |->
        IF q = p THEN c[q]
        ELSE IF "first" \in DOMAIN c[q]
        THEN [c[q] EXCEPT !.quiet = FALSE, !.first = NoPre]
        ELSE [c[q] EXCEPT !.quiet = FALSE]]
DisturbAll(c) == Disturb(c, "none")

\* ------------------------------------------------------------ system_stats.py
\* increment_stat(field, value) up to and including its first store call:
\* the get of the decrement branch, or the Increment update of the other one
IncrementStatCall(p, fn, field, value) ==
    /\ call[p].pc = "idle"
    /\ LET c0 == Found([IdleCall EXCEPT !.fn = fn, !.field = field,
                                        !.value = value], field)
           cur == StatGet(systemStats, field)
           new == ClampedValue(cur, value)
       IN IF value < 0
          THEN /\ UNCHANGED <<systemStats, now, cas, rebuilt>>
               /\ IF ~systemStats.exists
                  THEN /\ call' = [call EXCEPT ![p] =
                                     [c0 EXCEPT !.pc = "create_zero"]]
                       /\ UNCHANGED last
                  ELSE IF SkipUpdate(new, cur)
                  THEN /\ UNCHANGED call
                       /\ last' = Returned(p, c0, "skipped")
                  ELSE /\ call' = [call EXCEPT ![p] =
                                     [c0 EXCEPT !.pc = "safe_update",
                                                !.new_value = new]]
                       /\ UNCHANGED last
          ELSE IF systemStats.exists
          THEN /\ now < MaxClock
               /\ now' = now + 1
               /\ systemStats' = UpdateIncrement(systemStats, field, value, now')
               /\ rebuilt' = FALSE
               /\ call' = Disturb(call, p)
               /\ cas' = DisturbAll(cas)
               /\ last' = Returned(p, c0, "incremented")
          ELSE /\ UNCHANGED <<systemStats, now, cas, last, rebuilt>>
               /\ call' = [call EXCEPT ![p] = [c0 EXCEPT !.pc = "except"]]
    /\ UNCHANGED <<students, usedIds, companies, years,
                   placements, rounds, authVars, roundData>>

increment_stat(p) ==
    \E field \in CallFields, value \in (0 - MaxDelta)..MaxDelta :
        IncrementStatCall(p, "increment_stat", field, value)

\* decrement_stat(field, value) = increment_stat(field, -value)
decrement_stat(p) ==
    \E field \in CallFields, value \in 0..MaxDelta :
        IncrementStatCall(p, "decrement_stat", field, 0 - value)

\* decrement_stat(field): the amount left at its default, value = 1
decrement_stat_one(p) ==
    \E field \in CallFields :
        IncrementStatCall(p, "decrement_stat", field, 0 - 1)

\* stats_ref.update({field: new_value, ...}) of the decrement branch
increment_stat_safe_update(p) ==
    /\ call[p].pc = "safe_update"
    /\ systemStats.exists
    /\ now < MaxClock
    /\ now' = now + 1
    /\ systemStats' =
          UpdateField(systemStats, call[p].field, call[p].new_value, now')
    /\ rebuilt' = FALSE
    /\ call' = Disturb([call EXCEPT ![p] = IdleCall], p)
    /\ cas' = DisturbAll(cas)
    /\ last' = Returned(p, call[p], "updated")
    /\ UNCHANGED <<students, usedIds, companies, years,
                   placements, rounds, authVars, roundData>>

\* stats_ref.set({field: 0, ...}, merge=True): decrement of an absent document
increment_stat_create_zero(p) ==
    /\ call[p].pc = "create_zero"
    /\ now < MaxClock
    /\ now' = now + 1
    /\ systemStats' = SetMerge(systemStats, call[p].field, 0, now')
    /\ rebuilt' = FALSE
    /\ call' = Disturb([call EXCEPT ![p] = IdleCall], p)
    /\ cas' = DisturbAll(cas)
    /\ last' = Returned(p, call[p], "created")
    /\ UNCHANGED <<students, usedIds, companies, years,
                   placements, rounds, authVars, roundData>>

\* the except branch: stats_ref.set({field: initial_value, ...}, merge=True)
increment_stat_except(p) ==
    /\ call[p].pc = "except"
    /\ now < MaxClock
    /\ now' = now + 1
    /\ systemStats' =
          SetMerge(systemStats, call[p].field, InitialValue(call[p].value), now')
    /\ rebuilt' = FALSE
    /\ call' = Disturb([call EXCEPT ![p] = IdleCall], p)
    /\ cas' = DisturbAll(cas)
    /\ last' = Returned(p, call[p], "created")
    /\ UNCHANGED <<students, usedIds, companies, years,
                   placements, rounds, authVars, roundData>>

\* set_stat(field, value)
set_stat(p) ==
    \E field \in SetFields, value \in (0 - MaxDelta)..MaxDelta :
        /\ call[p].pc = "idle"
        /\ now < MaxClock
        /\ now' = now + 1
        /\ systemStats' = SetMerge(systemStats, field, value, now')
        /\ rebuilt' = FALSE
        /\ call' = Disturb(call, p)
        /\ cas' = DisturbAll(cas)
        /\ last' = Returned(p, Found([IdleCall EXCEPT !.fn = "set_stat",
                                !.field = field, !.value = value], field), "set")
        /\ UNCHANGED <<students, usedIds, companies, years,
                   placements, rounds, authVars, roundData>>

\* get_system_stats()
get_system_stats(p) ==
    /\ call[p].pc = "idle"
    /\ last' = [NoLast EXCEPT
          !.p = p, !.fn = "get_system_stats", !.outcome = "returned",
          !.existed = systemStats.exists,
          !.result = IF systemStats.exists THEN ToDict(systemStats)
                     ELSE DefaultStats,
          !.quiet = /\ last.fn = "initialize_system_stats"
                    /\ last.p = p
                    /\ last.quiet]
    /\ UNCHANGED <<students, usedIds, companies, years, systemStats, now, rebuilt,
                   placements, rounds, authVars, roundData, call, cas>>

\* initialize_system_stats(): the three collection streams
initialize_system_stats(p) ==
    /\ call[p].pc = "idle"
    /\ call' = [call EXCEPT ![p] =
          [IdleCall EXCEPT !.pc = "init_write",
                           !.fn = "initialize_system_stats",
                           !.scan = ScanStats(years, companies, students),
                           !.quiet = TRUE]]
    /\ UNCHANGED <<students, usedIds, companies, years, systemStats, now, rebuilt,
                   placements, rounds, authVars, roundData, cas, last>>

\* initialize_system_stats(): the set of stats_data and the return
initialize_system_stats_write(p) ==
    /\ call[p].pc = "init_write"
    /\ now < MaxClock
    /\ now' = now + 1
    /\ systemStats' = SetWhole(call[p].scan, now')
    /\ rebuilt' = call[p].quiet
    /\ call' = Disturb([call EXCEPT ![p] = IdleCall], p)
    /\ cas' = DisturbAll(cas)
    /\ last' = [NoLast EXCEPT
          !.p = p, !.fn = "initialize_system_stats",
          !.existed = systemStats.exists,
          !.had = ExtraField \in systemStats.has,
          !.outcome = "initialized", !.quiet = call[p].quiet,
          !.result = ToDict(systemStats')]
    /\ UNCHANGED <<students, usedIds, companies, years,
                   placements, rounds, authVars, roundData>>

\* --------------------------------------------- system_stats.py, failing store
\* the first store call of increment_stat (the get of the decrement branch or
\* the Increment update) raises: control passes to the except branch
increment_stat_first_call_fails(p) ==
    \E field \in CallFields, value \in (0 - MaxDelta)..MaxDelta :
        /\ call[p].pc = "idle"
        /\ call' = [call EXCEPT ![p] =
              [Found([IdleCall EXCEPT !.fn = "increment_stat", !.field = field,
                                      !.value = value], field)
                 EXCEPT !.pc = "except", !.failed = TRUE]]
        /\ UNCHANGED <<students, usedIds, companies, years, systemStats, now,
                       rebuilt, placements, rounds, authVars, roundData, cas, last>>

\* the update or the set of the decrement branch raises: the except branch
increment_stat_write_fails(p) ==
    /\ call[p].pc \in {"safe_update", "create_zero"}
    /\ call' = [call EXCEPT ![p].pc = "except", ![p].failed = TRUE]
    /\ UNCHANGED <<students, usedIds, companies, years, systemStats, now,
                   rebuilt, placements, rounds, authVars, roundData, cas, last>>

\* the set of the except branch raises: the exception leaves increment_stat
increment_stat_except_fails(p) ==
    /\ call[p].pc = "except"
    /\ call' = [call EXCEPT ![p] = IdleCall]
    /\ last' = Returned(p, [call[p] EXCEPT !.failed = TRUE], "error")
    /\ UNCHANGED <<students, usedIds, companies, years, systemStats, now,
                   rebuilt, placements, rounds, authVars, roundData, cas>>

\* the store call of set_stat or get_system_stats raises: no handler
stat_call_fails(p) ==
    \E fn \in {"set_stat", "get_system_stats"} :
        /\ call[p].pc = "idle"
        /\ last' = Returned(p, [IdleCall EXCEPT !.fn = fn, !.failed = TRUE],
                            "error")
        /\ UNCHANGED <<students, usedIds, companies, years, systemStats, now,
                       rebuilt, placements, rounds, authVars, roundData, cas, call>>

\* a stream or the set of initialize_system_stats raises: no handler
initialize_system_stats_fails(p) ==
    /\ call[p].pc \in {"idle", "init_write"}
    /\ call' = [call EXCEPT ![p] = IdleCall]
    /\ last' = Returned(p, [IdleCall EXCEPT !.fn = "initialize_system_stats",
                                            !.failed = TRUE], "error")
    /\ UNCHANGED <<students, usedIds, companies, years, systemStats, now,
                   rebuilt, placements, rounds, authVars, roundData, cas>>

\* -------------------------------------------------------------------- app.py
\* current_year = 2026
CurrentYear == 2026
\* .limit(5) of the recent companies query
RecentLimit == 5

Min(a, b) == IF a <= b THEN a ELSE b

\* the company documents of every year (mutant)
CompaniesOfYear_anyYear(cs, year) == {c \in CompanyIds : cs[c].exists}

\* db.collection('companies').where('year', '==', current_year).stream()
CompaniesOfYear(cs, year) ==
    {c \in CompanyIds : cs[c].exists /\ cs[c].year = year}

\* {'companyName': data.get('companyName', 'Unknown'),
\*  'placed': data.get('totalPlaced', 0), 'status': data.get('status', 'unknown')}
Projection(data) ==
    [companyName |-> IF data.companyName = "" THEN "Unknown"
                     ELSE data.companyName,
     placed |-> data.totalPlaced,
     status |-> data.status]

\* the stored companyWise map of a Year document, as read
StoredCompanyWise(year_doc) ==
    [c \in CompanyIds |->
        IF c \in year_doc.cwKeys
        THEN [NoProjection EXCEPT !.placed = year_doc.cwPlaced[c]]
        ELSE NoProjection]

\* the recent companies query without its limit (mutant)
RecentCompanies_unlimited(cs) == {{c \in CompanyIds : cs[c].exists}}

\* .order_by('updatedAt', DESCENDING).limit(5).stream(): the sets of documents
\* the query may return (documents of equal updatedAt come in any order)
RecentCompanies(cs) ==
    LET docs == {c \in CompanyIds : cs[c].exists}
    IN {R \in SUBSET docs :
          /\ Cardinality(R) = Min(RecentLimit, Cardinality(docs))
          /\ \A c \in R, d \in docs \ R : cs[c].updatedAt >= cs[d].updatedAt}

\* get_dashboard_summary: stats = get_system_stats(), one read counted
get_dashboard_summary(p) ==
    /\ call[p].pc = "idle"
    /\ call' = [call EXCEPT ![p] =
          [IdleCall EXCEPT
             !.pc = "dash_year", !.fn = "get_dashboard_summary", !.quiet = TRUE,
             !.dash = [NoDash EXCEPT
                         !.stats = IF systemStats.exists THEN ToDict(systemStats)
                                   ELSE DefaultStats,
                         !.reads = 1,
                         !.again = /\ last.fn = "get_dashboard_summary"
                                   /\ last.dash.repaired
                                   /\ last.quiet]]]
    /\ UNCHANGED <<students, usedIds, companies, years, systemStats, now, rebuilt,
                   placements, rounds, authVars, roundData, cas, last>>

\* get_dashboard_summary: the Year document of current_year, or the
\* synthesized structure; one read counted
dashboard_year(p) ==
    /\ call[p].pc = "dash_year"
    /\ LET year_doc == years[CurrentYear]
           d == [call[p].dash EXCEPT
                   !.year = CurrentYear,
                   !.yearFound = year_doc.exists,
                   !.totalPlaced = IF year_doc.exists THEN year_doc.totalPlaced
                                   ELSE 0,
                   !.cwKeys = IF year_doc.exists THEN year_doc.cwKeys ELSE {},
                   !.companyWise = IF year_doc.exists
                                   THEN StoredCompanyWise(year_doc)
                                   ELSE [c \in CompanyIds |-> NoProjection],
                   !.reads = @ + 1]
       IN call' = [call EXCEPT ![p].dash = d,
                               ![p].pc = IF d.cwKeys = {} THEN "dash_repair"
                                         ELSE "dash_recent"]
    /\ UNCHANGED <<students, usedIds, companies, years, systemStats, now, rebuilt,
                   placements, rounds, authVars, roundData, cas, last>>

\* the repair storing the companyWise keys it rebuilt in the Year document
\* (mutant)
dashboard_repair_stores(p) ==
    /\ call[p].pc = "dash_repair"
    /\ LET companies_docs == CompaniesOfYear(companies, CurrentYear)
       IN /\ call' = [call EXCEPT
                ![p].pc = "dash_recent",
                ![p].dash = [@ EXCEPT
                    !.repaired = TRUE,
                    !.cwKeys = companies_docs,
                    !.companyWise = [c \in CompanyIds |->
                        IF c \in companies_docs THEN Projection(companies[c])
                        ELSE NoProjection],
                    !.reads = @ + Cardinality(companies_docs)]]
          /\ years' = [years EXCEPT ![CurrentYear] =
                [@ EXCEPT !.exists = TRUE, !.cwKeys = companies_docs]]
    /\ UNCHANGED <<students, usedIds, companies, systemStats, now, rebuilt,
                   placements, rounds, authVars, roundData, cas, last>>

\* get_dashboard_summary: companyWise built from the companies of the year;
\* len(companies_docs) reads counted
dashboard_repair(p) ==
    /\ call[p].pc = "dash_repair"
    /\ LET companies_docs == CompaniesOfYear(companies, CurrentYear)
       IN call' = [call EXCEPT
             ![p].pc = "dash_recent",
             ![p].dash = [@ EXCEPT
                 !.repaired = TRUE,
                 !.cwKeys = companies_docs,
                 !.companyWise = [c \in CompanyIds |->
                     IF c \in companies_docs THEN Projection(companies[c])
                     ELSE NoProjection],
                 !.reads = @ + Cardinality(companies_docs)]]
    /\ UNCHANGED <<students, usedIds, companies, years, systemStats, now, rebuilt,
                   placements, rounds, authVars, roundData, cas, last>>

\* get_dashboard_summary: the recent companies, their reads counted, and
\* the response
dashboard_recent(p) ==
    \E recent_companies_docs \in RecentCompanies(companies) :
        /\ call[p].pc = "dash_recent"
        /\ call' = [call EXCEPT ![p] = IdleCall]
        /\ last' = [NoLast EXCEPT
              !.p = p, !.fn = "get_dashboard_summary", !.outcome = "200",
              !.quiet = call[p].quiet,
              !.dash = [call[p].dash EXCEPT
                          !.recent = recent_companies_docs,
                          !.reads = @ + Cardinality(recent_companies_docs)]]
        /\ UNCHANGED <<students, usedIds, companies, years, systemStats, now,
                       rebuilt, placements, rounds, authVars, roundData, cas>>

\* ----------------------------------------------------------- routes/students.py
\* roll numbers and e-mail addresses a creation request may carry
RollNumbers == {"r1", "r3"}
Emails == {"e3"}

\* the .where(field == value).limit(1) existence queries of create_student
RollNumberExists(ss, roll) ==
    \E s \in StudentIds : ss[s].exists /\ ss[s].rollNumber = roll
EmailExists(ss, email) ==
    \E s \in StudentIds : ss[s].exists /\ ss[s].email = email

\* create_student: validation passed; the two uniqueness queries
create_student(p) ==
    \E roll \in RollNumbers, email \in Emails :
        /\ call[p].pc = "idle"
        /\ IF RollNumberExists(students, roll) \/ EmailExists(students, email)
           THEN /\ UNCHANGED call
                /\ last' = [NoLast EXCEPT !.p = p, !.fn = "create_student",
                                          !.outcome = "409"]
           ELSE /\ call' = [call EXCEPT ![p] =
                     [IdleCall EXCEPT !.pc = "create_write",
                                      !.fn = "create_student",
                                      !.rollNumber = roll, !.email = email]]
                /\ UNCHANGED last
        /\ UNCHANGED <<students, usedIds, companies, years, systemStats, now, rebuilt,
                       placements, rounds, authVars, roundData, cas>>

\* create_student: doc_ref = collection.document(); doc_ref.set(student_data)
create_student_write(p) ==
    \E s \in StudentIds \ usedIds :
        /\ call[p].pc = "create_write"
        /\ students' = [students EXCEPT ![s] =
              [exists |-> TRUE, name |-> StudentName(call[p].rollNumber),
               rollNumber |-> call[p].rollNumber,
               email |-> call[p].email, currentStatus |-> "not_placed",
               totalOffers |-> 0, companyStatus |-> EmptyStatus]]
        /\ usedIds' = usedIds \cup {s}
        /\ call' = Disturb([call EXCEPT ![p] = IdleCall], p)
        /\ last' = [NoLast EXCEPT !.p = p, !.fn = "create_student",
                                  !.outcome = "201"]
        /\ cas' = DisturbAll(cas)
        /\ UNCHANGED <<companies, years, systemStats, now, rebuilt,
                       placements, rounds, authVars, roundData>>

\* ------------------------------------------------ services/student_deletion.py
\* the batch ceiling tested by `operation_count >= 500`
K == 500

\* the year test never passing (mutant)
HasYear_never(year) == FALSE

\* `if year:` of the company loop
HasYear(year) == year # NoYear

\* one pending write of a batch
NoOp ==
    [kind |-> "none", c |-> "", r |-> 0, s |-> "", k |-> 0, y |-> NoYear,
     placed |-> FALSE, cw |-> {}, n |-> 0]
\* the placement deletion deleting the student document (mutant)
DeletePlacement_student(c, s) ==
    [NoOp EXCEPT !.kind = "delete_student", !.s = s]

\* batch.delete(placement_ref)
DeletePlacement(c, s) ==
    [NoOp EXCEPT !.kind = "delete_placement", !.c = c, !.s = s]
\* batch.delete(data_doc.reference)
DeleteRow(c, r, s, k) ==
    [NoOp EXCEPT !.kind = "delete_row", !.c = c, !.r = r, !.s = s, !.k = k]
\* the company update left out of the batch (mutant)
UpdateCompany_none(c, was_placed) == [NoOp EXCEPT !.c = c]

\* batch.update(company_ref, update_data)
UpdateCompany(c, was_placed) ==
    [NoOp EXCEPT !.kind = "update_company", !.c = c, !.placed = was_placed]
\* the student deletion left out of the batch (mutant)
DeleteStudent_missing(s) == [NoOp EXCEPT !.s = s]

\* batch.delete(student_ref)
DeleteStudent(s) == [NoOp EXCEPT !.kind = "delete_student", !.s = s]

\* the entries counted into total_placed_in_year, any year (mutant)
PlacedInYear_anyYear(company_status, year) ==
    {c \in CompanyIds :
        company_status[c].present /\ company_status[c].finalSelection}

\* the entries counted into total_placed_in_year
PlacedInYear(company_status, year) ==
    {c \in CompanyIds :
        /\ company_status[c].present
        /\ company_status[c].year = year
        /\ company_status[c].finalSelection}

\* batch.update(year_ref, year_update): companyWise.<c>.placed for c in cw,
\* and totalPlaced by -n when n > 0
UpdateYear(company_status, year) ==
    LET cw == PlacedInYear(company_status, year)
    IN [NoOp EXCEPT !.kind = "update_year", !.y = year, !.cw = cw,
                    !.n = Cardinality(cw)]

RECURSIVE YearUpdates(_, _)
\* the year loop: one update per affected year
YearUpdates(company_status, ys) ==
    IF ys = {} THEN <<>>
    ELSE LET y == CHOOSE x \in ys : \A z \in ys : x <= z
         IN <<UpdateYear(company_status, y)>>
            \o YearUpdates(company_status, ys \ {y})

\* the rows `.where('studentId', '==', student_id)` matches in one round
RowsOf(c, r, s) == {k \in 1..2 : <<c, r, s, k>> \in roundData}
\* `.limit(1)`: at most the first of them
LimitOne(ks) == IF ks = {} THEN {} ELSE {CHOOSE k \in ks : \A j \in ks : k <= j}

\* --- batch.commit()
Ops(batch, kind) == {i \in DOMAIN batch : batch[i].kind = kind}

RECURSIVE SumN(_, _)
SumN(batch, is) ==
    IF is = {} THEN 0
    ELSE LET i == CHOOSE x \in is : TRUE
         IN batch[i].n + SumN(batch, is \ {i})

\* a commit that also requires the documents it deletes to be stored (mutant)
CommitOk_deleteStored(batch) ==
    /\ \A i \in Ops(batch, "update_company") : companies[batch[i].c].exists
    /\ \A i \in Ops(batch, "update_year") : years[batch[i].y].exists
    /\ \A i \in Ops(batch, "delete_student") : students[batch[i].s].exists

\* update() needs its document: a batch updating an absent document fails;
\* a delete of an absent document succeeds
CommitOk(batch) ==
    /\ \A i \in Ops(batch, "update_company") : companies[batch[i].c].exists
    /\ \A i \in Ops(batch, "update_year") : years[batch[i].y].exists

Stamps(batch) ==
    Ops(batch, "update_company") \cup Ops(batch, "update_year") # {}

\* totalApplied by Increment(-1) whether or not the student was placed (mutant)
CompaniesAfter_onlyPlaced(batch, t) ==
    [c \in CompanyIds |->
        LET ups == {i \in Ops(batch, "update_company") : batch[i].c = c}
            pls == {i \in ups : batch[i].placed}
        IN IF ups = {} THEN companies[c]
           ELSE [companies[c] EXCEPT
                   !.totalApplied = @ - Cardinality(pls),
                   !.totalPlaced = @ - Cardinality(pls),
                   !.updatedAt = t]]

\* totalApplied written as the value the cascade read at its start less one,
\* in place of the atomic add (mutant)
CompaniesAfter_fromRead(batch, t) ==
    [c \in CompanyIds |->
        LET ups == {i \in Ops(batch, "update_company") : batch[i].c = c}
            readers == {q \in Procs :
                           /\ cas[q].pc \in {"company_loop", "round_loop",
                                             "delete_student"}
                           /\ \E i \in Ops(batch, "delete_student") :
                                 batch[i].s = cas[q].student_id}
            read == IF readers = {} THEN companies[c].totalApplied
                    ELSE cas[CHOOSE q \in readers : TRUE]
                            .pre.companies[c].totalApplied
        IN IF ups = {} THEN companies[c]
           ELSE [companies[c] EXCEPT
                   !.totalApplied = read - Cardinality(ups),
                   !.totalPlaced = @ - Cardinality({i \in ups : batch[i].placed}),
                   !.updatedAt = t]]

\* totalApplied: Increment(-1); totalPlaced: Increment(-1) when placed
CompaniesAfter(batch, t) ==
    [c \in CompanyIds |->
        LET ups == {i \in Ops(batch, "update_company") : batch[i].c = c}
        IN IF ups = {} THEN companies[c]
           ELSE [companies[c] EXCEPT
                   !.totalApplied = @ - Cardinality(ups),
                   !.totalPlaced = @ - Cardinality({i \in ups : batch[i].placed}),
                   !.updatedAt = t]]

\* totalStudentsParticipated: Increment(-1); companyWise.<c>.placed:
\* Increment(-1); totalPlaced: Increment(-total_placed_in_year)
YearsAfter(batch, t) ==
    [y \in YearIds |->
        LET ups == {i \in Ops(batch, "update_year") : batch[i].y = y}
        IN IF ups = {} THEN years[y]
           ELSE [years[y] EXCEPT
                   !.totalStudentsParticipated = @ - Cardinality(ups),
                   !.totalPlaced = @ - SumN(batch, ups),
                   !.cwKeys = @ \cup UNION {batch[i].cw : i \in ups},
                   !.cwPlaced = [c \in CompanyIds |->
                        @[c] - Cardinality({i \in ups : c \in batch[i].cw})],
                   !.updatedAt = t]]

\* a placement deletion removing the student's placements everywhere (mutant)
PlacementsAfter_everywhere(batch) ==
    {pl \in placements :
        ~\E i \in Ops(batch, "delete_placement") : batch[i].s = pl[2]}

PlacementsAfter(batch) ==
    placements \ {<<batch[i].c, batch[i].s>> :
                     i \in Ops(batch, "delete_placement")}

\* a row deletion removing every row of the student in the round (mutant)
RoundDataAfter_allRows(batch) ==
    {row \in roundData :
        ~\E i \in Ops(batch, "delete_row") :
            /\ batch[i].c = row[1] /\ batch[i].r = row[2] /\ batch[i].s = row[3]}

\* a commit that leaves the round data rows of its batch in place (mutant)
RoundDataAfter_none(batch) == roundData

RoundDataAfter(batch) ==
    roundData \ {<<batch[i].c, batch[i].r, batch[i].s, batch[i].k>> :
                    i \in Ops(batch, "delete_row")}

StudentsAfter(batch) ==
    [s \in StudentIds |->
        IF \E i \in Ops(batch, "delete_student") : batch[i].s = s
        THEN NoStudent ELSE students[s]]

\* --- locals of one delete_student_cascade call
\* result = {'message', 'studentId', 'studentName', 'cascadingUpdates': {...}}
Result(c) ==
    [keys |-> {"message", "studentId", "studentName", "cascadingUpdates"},
     studentId |-> c.student_id, studentName |-> c.student_name,
     companiesAffected |-> c.companiesAffected,
     roundsDeleted |-> c.roundsDeleted,
     placementsDeleted |-> c.placementsDeleted,
     yearsAffected |-> Cardinality(c.yearsAffected)]

IdleCas ==
    [pc |-> "idle", student_id |-> "", found |-> FALSE, student_name |-> "",
     company_status |-> EmptyStatus, total_offers |-> 0, result |-> NoSummary,
     batch |-> <<>>, operation_count |-> 0,
     companiesAffected |-> 0, roundsDeleted |-> 0, placementsDeleted |-> 0,
     yearsAffected |-> {}, todo |-> {}, company_year_id |-> "",
     was_placed |-> FALSE, round |-> 0, numRounds |-> 0,
     error |-> "none", committed |-> <<>>, refused |-> FALSE,
     quiet |-> FALSE, pre |-> NoPre, first |-> NoPre]

\* what request p remembers when its cascade c fails: the store as the first
\* of its failed attempts at this student found it, while no other request
\* has written since
FirstAfterFailure(c) ==
    IF ~c.quiet THEN NoPre
    ELSE IF c.first.student.exists THEN c.first
    ELSE c.pre

\* the locals of a cascade c that raised an Exception
Raised(c) ==
    [IdleCas EXCEPT !.pc = "raised", !.error = "Exception",
                    !.student_id = c.student_id, !.found = c.found,
                    !.committed = c.committed,
                    !.first = FirstAfterFailure(c)]

\* batch.commit() of `batch` by request p; `next` holds p's locals after it.
\* The batch is applied as a whole or the call raises; a batch of more than
\* K writes may be refused by the store.
Commit(p, batch, next) ==
    \/ /\ CommitOk(batch)
       /\ now' = IF Stamps(batch) THEN now + 1 ELSE now
       /\ companies' = CompaniesAfter(batch, now')
       /\ years' = YearsAfter(batch, now')
       /\ placements' = PlacementsAfter(batch)
       /\ roundData' = RoundDataAfter(batch)
       /\ students' = StudentsAfter(batch)
       /\ cas' = Disturb([cas EXCEPT ![p] =
              [next EXCEPT !.committed = Append(@, Len(batch))]], p)
       /\ call' = DisturbAll(call)
       /\ last' = [last EXCEPT !.quiet = FALSE]
       /\ UNCHANGED rebuilt
    \/ /\ ~CommitOk(batch) \/ Len(batch) > K
       /\ cas' = [cas EXCEPT ![p] =
              [Raised(cas[p]) EXCEPT
                 !.committed = Append(cas[p].committed, Len(batch)),
                 !.refused = TRUE]]
       /\ rebuilt' = FALSE
       /\ UNCHANGED <<now, companies, years, placements, roundData, students,
                      call, last>>

\* an enqueue followed by `if operation_count >= 500: commit; new batch`
EnqueueChecked(p, c0, op) ==
    LET b == Append(c0.batch, op)
        n == c0.operation_count + 1
    IN IF n >= K
       THEN Commit(p, b, [c0 EXCEPT !.batch = <<>>, !.operation_count = 0])
       ELSE /\ cas' = [cas EXCEPT ![p] =
                 [c0 EXCEPT !.batch = b, !.operation_count = n]]
            /\ UNCHANGED <<now, companies, years, placements, roundData,
                           students, call, last, rebuilt>>

\* the existence test on the fetched student document, never raising (mutant)
StudentNotFound_never(student_doc) == FALSE

\* `if not student_doc.exists`
StudentNotFound(student_doc) == ~student_doc.exists

\* step 1: fetch the student document, raise ValueError or set up the batch
delete_student_cascade(p) ==
    \E student_id \in StudentIds :
        /\ cas[p].pc = "idle"
        /\ LET student_doc == students[student_id]
               c0 == [IdleCas EXCEPT !.student_id = student_id,
                                     !.found = student_doc.exists,
                                     !.quiet = TRUE,
                                     !.pre = [companies |-> companies,
                                              years |-> years,
                                              placements |-> placements,
                                              roundData |-> roundData,
                                              student |-> student_doc,
                                              student_id |-> student_id],
                                     !.first =
                                         IF cas[p].first.student_id = student_id
                                         THEN cas[p].first ELSE NoPre]
           IN cas' = [cas EXCEPT ![p] =
                IF StudentNotFound(student_doc)
                THEN [c0 EXCEPT !.pc = "raised", !.error = "ValueError"]
                ELSE [c0 EXCEPT !.pc = "company_loop",
                                !.student_name = student_doc.name,
                                !.company_status = student_doc.companyStatus,
                                !.total_offers = student_doc.totalOffers,
                                !.todo = {c \in CompanyIds :
                                    student_doc.companyStatus[c].present}]]
        /\ UNCHANGED <<students, usedIds, companies, years, systemStats, now, rebuilt,
                       placements, rounds, authVars, roundData, call, last>>

\* step 2, head of the company loop: count the company, note its year,
\* enqueue the placement deletion, open the rounds stream
cascade_company(p) ==
    \E company_year_id \in cas[p].todo :
        /\ cas[p].pc = "company_loop"
        /\ LET company_info == cas[p].company_status[company_year_id]
               was_placed == company_info.finalSelection
               c0 == [cas[p] EXCEPT
                        !.pc = "round_loop",
                        !.todo = @ \ {company_year_id},
                        !.company_year_id = company_year_id,
                        !.companiesAffected = @ + 1,
                        !.yearsAffected =
                            IF HasYear(company_info.year)
                            THEN @ \cup {company_info.year} ELSE @,
                        !.was_placed = was_placed,
                        !.round = 1,
                        !.numRounds = rounds[company_year_id]]
           IN cas' = [cas EXCEPT ![p] =
                IF was_placed
                THEN [c0 EXCEPT
                        !.batch = Append(@, DeletePlacement(company_year_id,
                                                            cas[p].student_id)),
                        !.operation_count = @ + 1,
                        !.placementsDeleted = @ + 1]
                ELSE c0]
        /\ UNCHANGED <<students, usedIds, companies, years, systemStats, now, rebuilt,
                       placements, rounds, authVars, roundData, call, last>>

\* step 2, one round of the stream: query the student's row, enqueue its
\* deletion, commit when the count reaches the ceiling
cascade_round(p) ==
    /\ cas[p].pc = "round_loop"
    /\ cas[p].round <= cas[p].numRounds
    /\ LET c == cas[p].company_year_id
           r == cas[p].round
           found == LimitOne(RowsOf(c, r, cas[p].student_id))
           c0 == [cas[p] EXCEPT !.round = @ + 1]
       IN IF found = {}
          THEN /\ cas' = [cas EXCEPT ![p] = c0]
               /\ UNCHANGED <<now, companies, years, placements, roundData,
                              students, call, last, rebuilt>>
          ELSE EnqueueChecked(p, [c0 EXCEPT !.roundsDeleted = @ + 1],
                   DeleteRow(c, r, cas[p].student_id,
                             CHOOSE k \in found : TRUE))
    /\ UNCHANGED <<usedIds, systemStats, rounds, authVars>>

\* step 2, tail of the company loop: enqueue the counter update, commit when
\* the count reaches the ceiling
cascade_company_update(p) ==
    /\ cas[p].pc = "round_loop"
    /\ cas[p].round > cas[p].numRounds
    /\ EnqueueChecked(p, [cas[p] EXCEPT !.pc = "company_loop"],
            UpdateCompany(cas[p].company_year_id, cas[p].was_placed))
    /\ UNCHANGED <<usedIds, systemStats, rounds, authVars>>

\* step 3: one update per affected year is enqueued
cascade_years(p) ==
    /\ cas[p].pc = "company_loop"
    /\ cas[p].todo = {}
    /\ LET ups == YearUpdates(cas[p].company_status, cas[p].yearsAffected)
       IN cas' = [cas EXCEPT ![p].pc = "delete_student",
                             ![p].batch = @ \o ups,
                             ![p].operation_count = @ + Len(ups)]
    /\ UNCHANGED <<students, usedIds, companies, years, systemStats, now, rebuilt,
                   placements, rounds, authVars, roundData, call, last>>

\* step 4: enqueue the student deletion, commit the remaining operations
cascade_delete_student(p) ==
    /\ cas[p].pc = "delete_student"
    /\ Commit(p, Append(cas[p].batch, DeleteStudent(cas[p].student_id)),
              [cas[p] EXCEPT !.pc = "second_delete", !.batch = <<>>,
                             !.operation_count = @ + 1])
    /\ UNCHANGED <<usedIds, systemStats, rounds, authVars>>

\* step 5: a fresh batch deleting the student document again, then the result
cascade_second_delete(p) ==
    /\ cas[p].pc = "second_delete"
    /\ Commit(p, <<DeleteStudent(cas[p].student_id)>>,
              [cas[p] EXCEPT !.pc = "returned", !.result = Result(cas[p])])
    /\ UNCHANGED <<usedIds, systemStats, rounds, authVars>>

\* a store call of the cascade other than a refused commit raises, or the
\* process stops: the cascade ends where it is and what it committed stays
cascade_fails(p) ==
    /\ cas[p].pc \in {"company_loop", "round_loop", "delete_student",
                       "second_delete"}
    /\ cas' = [cas EXCEPT ![p] = Raised(cas[p])]
    /\ rebuilt' = FALSE
    /\ UNCHANGED <<students, usedIds, companies, years, systemStats, now,
                   placements, rounds, authVars, roundData, call, last>>

\* every error of the cascade answered as a generic failure (mutant)
StatusOf_generic(c) == IF c.pc = "returned" THEN "200" ELSE "500"

\* routes/students.py delete_student: the response to the cascade's outcome
StatusOf(c) ==
    IF c.pc = "returned" THEN "200"
    ELSE IF c.error = "ValueError" THEN "404" ELSE "500"

delete_student(p) ==
    /\ cas[p].pc \in {"returned", "raised"}
    /\ cas' = [cas EXCEPT ![p] =
          [IdleCas EXCEPT !.first = IF cas[p].pc = "raised" THEN cas[p].first
                                    ELSE NoPre]]
    /\ last' = [NoLast EXCEPT !.p = p, !.fn = "delete_student",
                              !.outcome = StatusOf(cas[p]),
                              !.summary = cas[p].result]
    /\ UNCHANGED <<students, usedIds, companies, years, systemStats, now, rebuilt,
                   placements, rounds, authVars, roundData, call>>

\* ---------------------------------------------------- app.py, authentication
MaxLogins == 2
\* REFRESH_TOKEN_EXPIRY, in ticks of the clock
RefreshExpiry == 2

UserIds == {"u1", "u2"}
\* the usernames a login request may carry
Usernames == {"alice", "bob", "nobody"}

\* no refreshToken cookie, and a user document without a refresh_token field
NoToken == [user_id |-> "", iat |-> 0, exp |-> 0, signed |-> FALSE]
\* a token that is not signed with JWT_REFRESH_SECRET_KEY
ForgedToken == [user_id |-> "u1", iat |-> 0, exp |-> 0, signed |-> FALSE]

\* jwt.encode({'user_id', 'exp', 'iat'}, JWT_REFRESH_SECRET_KEY, 'HS256'): the
\* token is a function of the user and of utcnow() in whole seconds
generate_refresh_token(user_id, t) ==
    [user_id |-> user_id, iat |-> t, exp |-> t + RefreshExpiry, signed |-> TRUE]

\* jwt.decode(refresh_token, JWT_REFRESH_SECRET_KEY, algorithms=['HS256'])
jwt_decode(token, t) ==
    IF ~token.signed THEN "InvalidTokenError"
    ELSE IF token.exp <= t THEN "ExpiredSignatureError"
    ELSE "ok"

NoUser == [exists |-> FALSE, username |-> "", refresh_token |-> NoToken]
UserDoc(name) == [exists |-> TRUE, username |-> name, refresh_token |-> NoToken]

\* .where('username', '==', username).limit(1)
get_user_by_username(username) ==
    {u \in UserIds : users[u].exists /\ users[u].username = username}

NoResponse ==
    [fn |-> "none", status |-> "none", error |-> "",
     user_id |-> "", refreshToken |-> NoToken, presented |-> NoToken]
IdleAuth == [pc |-> "idle", user_id |-> "", refresh_token |-> NoToken]

\* the users collection, the login history and the requests when the
\* authentication routes are not exercised
NoUsers == [u \in UserIds |-> NoUser]
NoIssued == [u \in UserIds |-> <<>>]
NoAuth == [req |-> [p \in Procs |-> IdleAuth], resp |-> NoResponse]

Range(s) == {s[i] : i \in DOMAIN s}

\* the refresh tokens a client can present: none, one it made up, or any
\* that a login has returned
Presentable == {NoToken, ForgedToken} \cup UNION {Range(issued[u]) : u \in UserIds}

\* the logins that stored a token or are about to
Logins ==
    Len(issued["u1"]) + Len(issued["u2"])
       + Cardinality({p \in Procs : auth.req[p].pc = "login_store"})

\* login: the user lookup, the password check and the two tokens
login(p) ==
    \E username \in Usernames, password_ok \in BOOLEAN :
        /\ auth.req[p].pc = "idle"
        /\ LET found == get_user_by_username(username)
           IN IF found = {} \/ ~password_ok
              THEN auth' = [auth EXCEPT !.resp =
                      [NoResponse EXCEPT !.fn = "login",
                          !.status = "401", !.error = "Invalid credentials"]]
              ELSE \E u \in found :
                      /\ Logins < MaxLogins
                      /\ auth' = [auth EXCEPT !.req[p] =
                            [pc |-> "login_store", user_id |-> u,
                             refresh_token |-> generate_refresh_token(u, now)]]
        /\ UNCHANGED <<students, usedIds, companies, years, systemStats, now,
                       placements, rounds, roundData, call, cas, last, rebuilt,
                       users, issued>>

\* login: update_user_refresh_token and the response; the update of a
\* document deleted meanwhile raises and the route answers 500
login_store(p) ==
    /\ auth.req[p].pc = "login_store"
    /\ LET u == auth.req[p].user_id
           refresh_token == auth.req[p].refresh_token
       IN IF users[u].exists
          THEN /\ users' = [users EXCEPT ![u].refresh_token = refresh_token]
               /\ issued' = [issued EXCEPT ![u] = Append(@, refresh_token)]
               /\ auth' = [req |-> [auth.req EXCEPT ![p] = IdleAuth],
                           resp |-> [NoResponse EXCEPT !.fn = "login",
                               !.status = "200", !.user_id = u,
                               !.refreshToken = refresh_token]]
          ELSE /\ UNCHANGED <<users, issued>>
               /\ auth' = [req |-> [auth.req EXCEPT ![p] = IdleAuth],
                           resp |-> [NoResponse EXCEPT !.fn = "login",
                               !.status = "500", !.user_id = u]]
    /\ UNCHANGED <<students, usedIds, companies, years, systemStats, now,
                   placements, rounds, roundData, call, cas, last, rebuilt>>

\* the refresh without the comparison with the stored token (mutant)
RefreshOutcome_anySigned(refresh_token) ==
    IF refresh_token = NoToken THEN <<"401", "Refresh token missing">>
    ELSE IF jwt_decode(refresh_token, now) = "ExpiredSignatureError"
    THEN <<"401", "Refresh token expired">>
    ELSE IF jwt_decode(refresh_token, now) = "InvalidTokenError"
    THEN <<"401", "Invalid refresh token">>
    ELSE IF ~users[refresh_token.user_id].exists
    THEN <<"401", "User not found">>
    ELSE <<"200", "">>

\* the status and the error of POST /api/auth/refresh for a cookie value
RefreshOutcome(refresh_token) ==
    IF refresh_token = NoToken THEN <<"401", "Refresh token missing">>
    ELSE IF jwt_decode(refresh_token, now) = "ExpiredSignatureError"
    THEN <<"401", "Refresh token expired">>
    ELSE IF jwt_decode(refresh_token, now) = "InvalidTokenError"
    THEN <<"401", "Invalid refresh token">>
    ELSE IF ~users[refresh_token.user_id].exists
    THEN <<"401", "User not found">>
    ELSE IF users[refresh_token.user_id].refresh_token # refresh_token
    THEN <<"401", "Invalid refresh token">>
    ELSE <<"200", "">>

\* refresh: one read of the user document, no write
refresh(p) ==
    \E refresh_token \in Presentable :
        /\ auth.req[p].pc = "idle"
        /\ auth' = [auth EXCEPT !.resp =
              [NoResponse EXCEPT !.fn = "refresh",
                  !.status = RefreshOutcome(refresh_token)[1],
                  !.error = RefreshOutcome(refresh_token)[2],
                  !.user_id = refresh_token.user_id,
                  !.presented = refresh_token]]
        /\ UNCHANGED <<students, usedIds, companies, years, systemStats, now,
                       placements, rounds, roundData, call, cas, last, rebuilt,
                       users, issued>>

\* delete_user_endpoint: delete_user(user_id) of a stored user
delete_user(u) ==
    /\ users[u].exists
    /\ users' = [users EXCEPT ![u] = NoUser]
    /\ UNCHANGED <<students, usedIds, companies, years, systemStats, now,
                   placements, rounds, roundData, call, cas, last, rebuilt,
                   issued, auth>>

\* a second passes on the clock datetime.utcnow() reads
utcnow_advances ==
    /\ now < MaxClock
    /\ now' = now + 1
    /\ UNCHANGED <<students, usedIds, companies, years, systemStats,
                   placements, rounds, roundData, call, cas, last, rebuilt,
                   users, issued, auth>>

\* ------------------------------------------------ counter maintainer behaviours
Student(roll, email, status, offers, cs) ==
    [exists |-> TRUE, name |-> StudentName(roll),
     rollNumber |-> roll, email |-> email,
     currentStatus |-> status, totalOffers |-> offers, companyStatus |-> cs]

Company(status, y, applied, placed) ==
    [exists |-> TRUE, companyName |-> "Acme", status |-> status, year |-> y,
     totalApplied |-> applied, totalPlaced |-> placed, updatedAt |-> 0]

YearDoc(participated, placed, keys) ==
    [exists |-> TRUE, totalStudentsParticipated |-> participated,
     totalPlaced |-> placed, cwKeys |-> keys,
     cwPlaced |-> [c \in CompanyIds |-> IF c \in keys THEN placed ELSE 0],
     updatedAt |-> 0]

InitStats ==
    /\ students \in
          {[s \in StudentIds |->
              CASE s = "s1" -> Student("r1", "e1", "placed", 1, EmptyStatus)
                [] s = "s2" -> b
                [] OTHER -> NoStudent] :
           b \in {Student("r2", "e2", "none", 2, EmptyStatus)}}
    /\ usedIds = {s \in StudentIds : students[s].exists}
    /\ companies \in
          {[c \in CompanyIds |->
              CASE c = "c1" -> Company("running", 2025, 1, 1)
                [] c = "c2" -> b
                [] OTHER -> NoCompany] :
           b \in {Company("unknown", 2026, 0, 0)}}
    /\ years = [y \in YearIds |->
                  IF y = 2025 THEN YearDoc(1, 1, {"c1"}) ELSE NoYearDoc]
    /\ systemStats = NoStats
    /\ now = 0
    /\ placements = {<<"c1", "s1">>}
    /\ users = NoUsers
    /\ issued = NoIssued
    /\ auth = NoAuth
    /\ rounds = [c \in CompanyIds |-> 1]
    /\ roundData = {<<"c1", 1, "s1", 1>>}
    /\ call = [p \in Procs |-> IdleCall]
    /\ cas = [p \in Procs |-> IdleCas]
    /\ last = NoLast
    /\ rebuilt = FALSE

NextStats ==
    \E p \in Procs :
        \/ increment_stat(p)
        \/ decrement_stat(p)
        \/ increment_stat_safe_update(p)
        \/ increment_stat_create_zero(p)
        \/ increment_stat_except(p)
        \/ set_stat(p)
        \/ get_system_stats(p)
        \/ initialize_system_stats(p)
        \/ initialize_system_stats_write(p)

SpecStats == InitStats /\ [][NextStats]_vars

\* ------------------------------------------ counter maintainer, failing store
\* one caller whose store calls may raise
InitFail == InitStats

NextFail ==
    \E p \in {"p1"} :
        \/ increment_stat(p)
        \/ decrement_stat(p)
        \/ increment_stat_safe_update(p)
        \/ increment_stat_create_zero(p)
        \/ increment_stat_except(p)
        \/ set_stat(p)
        \/ get_system_stats(p)
        \/ initialize_system_stats(p)
        \/ initialize_system_stats_write(p)
        \/ increment_stat_first_call_fails(p)
        \/ increment_stat_write_fails(p)
        \/ increment_stat_except_fails(p)
        \/ stat_call_fails(p)
        \/ initialize_system_stats_fails(p)

SpecFail == InitFail /\ [][NextFail]_vars

\* ------------------------------------------- concurrent decrements of a counter
\* the record as a rebuild left it, with totalStudents = c
StoredStats(c) ==
    [SetWhole(ZeroVals, 0) EXCEPT !.val["totalStudents"] = c]

\* the record exists and holds a count of 2 or 3; two callers decrement it
\* by one and read it
InitRace ==
    /\ students = [s \in StudentIds |->
                      CASE s = "s1" -> Student("r1", "e1", "placed", 1, EmptyStatus)
                        [] s = "s2" -> Student("r2", "e2", "none", 2, EmptyStatus)
                        [] OTHER -> NoStudent]
    /\ usedIds = {s \in StudentIds : students[s].exists}
    /\ companies = [c \in CompanyIds |->
                       CASE c = "c1" -> Company("running", 2025, 1, 1)
                         [] c = "c2" -> Company("unknown", 2026, 0, 0)
                         [] OTHER -> NoCompany]
    /\ years = [y \in YearIds |->
                  IF y = 2025 THEN YearDoc(1, 1, {"c1"}) ELSE NoYearDoc]
    /\ systemStats \in {StoredStats(2), StoredStats(3)}
    /\ now = 0
    /\ placements = {<<"c1", "s1">>}
    /\ users = NoUsers
    /\ issued = NoIssued
    /\ auth = NoAuth
    /\ rounds = [c \in CompanyIds |-> 1]
    /\ roundData = {<<"c1", 1, "s1", 1>>}
    /\ call = [p \in Procs |-> IdleCall]
    /\ cas = [p \in Procs |-> [IdleCas EXCEPT !.pc = "off"]]
    /\ last = NoLast
    /\ rebuilt = FALSE

NextRace ==
    \E p \in Procs :
        \/ decrement_stat_one(p)
        \/ increment_stat_safe_update(p)
        \/ get_system_stats(p)

SpecRace == InitRace /\ [][NextRace]_vars

\* ------------------------------------------------ concurrent increments
\* increment_stat(field, value) with value >= 0
increment_stat_up(p) ==
    \E field \in CallFields, value \in 0..MaxDelta :
        IncrementStatCall(p, "increment_stat", field, value)

\* the record is absent or holds a count of 0 or 1; two callers increment it
InitInc ==
    /\ students = [s \in StudentIds |->
                      CASE s = "s1" -> Student("r1", "e1", "placed", 1, EmptyStatus)
                        [] s = "s2" -> Student("r2", "e2", "none", 2, EmptyStatus)
                        [] OTHER -> NoStudent]
    /\ usedIds = {s \in StudentIds : students[s].exists}
    /\ companies = [c \in CompanyIds |->
                       CASE c = "c1" -> Company("running", 2025, 1, 1)
                         [] c = "c2" -> Company("unknown", 2026, 0, 0)
                         [] OTHER -> NoCompany]
    /\ years = [y \in YearIds |->
                  IF y = 2025 THEN YearDoc(1, 1, {"c1"}) ELSE NoYearDoc]
    /\ systemStats \in {NoStats, StoredStats(0), StoredStats(1)}
    /\ now = 0
    /\ placements = {<<"c1", "s1">>}
    /\ users = NoUsers
    /\ issued = NoIssued
    /\ auth = NoAuth
    /\ rounds = [c \in CompanyIds |-> 1]
    /\ roundData = {<<"c1", 1, "s1", 1>>}
    /\ call = [p \in Procs |-> IdleCall]
    /\ cas = [p \in Procs |-> [IdleCas EXCEPT !.pc = "off"]]
    /\ last = NoLast
    /\ rebuilt = FALSE

NextInc ==
    \E p \in Procs :
        \/ increment_stat_up(p)
        \/ increment_stat_except(p)

SpecInc == InitInc /\ [][NextInc]_vars

\* --------------------------------------- student creation beside the counters
\* one student stored, two identifiers free; two callers creating students,
\* rebuilding, setting and reading the counters
InitCreate ==
    /\ students = [s \in StudentIds |->
                      IF s = "s1" THEN Student("r1", "e1", "placed", 1, EmptyStatus)
                      ELSE NoStudent]
    /\ usedIds = {s \in StudentIds : students[s].exists}
    /\ companies = [c \in CompanyIds |->
                       CASE c = "c1" -> Company("running", 2025, 1, 1)
                         [] c = "c2" -> Company("completed", 2026, 0, 0)
                         [] OTHER -> NoCompany]
    /\ years = [y \in YearIds |->
                  IF y = 2025 THEN YearDoc(1, 1, {"c1"}) ELSE NoYearDoc]
    /\ systemStats = NoStats
    /\ now = 0
    /\ placements = {<<"c1", "s1">>}
    /\ users = NoUsers
    /\ issued = NoIssued
    /\ auth = NoAuth
    /\ rounds = [c \in CompanyIds |-> 1]
    /\ roundData = {<<"c1", 1, "s1", 1>>}
    /\ call = [p \in Procs |-> IdleCall]
    /\ cas = [p \in Procs |-> [IdleCas EXCEPT !.pc = "off"]]
    /\ last = NoLast
    /\ rebuilt = FALSE

NextCreate ==
    \E p \in Procs :
        \/ create_student(p)
        \/ create_student_write(p)
        \/ initialize_system_stats(p)
        \/ initialize_system_stats_write(p)
        \/ set_stat(p)
        \/ get_system_stats(p)

SpecCreate == InitCreate /\ [][NextCreate]_vars

\* ------------------------------------------------- cascade deletion behaviours
\* no request is in progress
Quiescent ==
    \A p \in Procs : cas[p].pc \in {"idle", "off"} /\ call[p].pc \in {"idle", "off"}

\* a request slot that is never used in a behaviour
OffCall == [IdleCall EXCEPT !.pc = "off"]
OffCas == [IdleCas EXCEPT !.pc = "off"]

\* companyStatus maps of the first student
StatusOf1 ==
    {EmptyStatus,
     [EmptyStatus EXCEPT !["c1"] = Entry(2025, TRUE)],
     [EmptyStatus EXCEPT !["c1"] = Entry(NoYear, TRUE)],
     [EmptyStatus EXCEPT !["c1"] = Entry(2025, TRUE), !["c2"] = Entry(2025, FALSE)],
     [EmptyStatus EXCEPT !["c1"] = Entry(2025, TRUE), !["c2"] = Entry(2025, TRUE)],
     [EmptyStatus EXCEPT !["c1"] = Entry(2025, FALSE), !["c2"] = Entry(2026, TRUE)]}

\* companyStatus map of the second student
StatusOf2 == [EmptyStatus EXCEPT !["c1"] = Entry(2025, TRUE)]

\* the years named in a companyStatus map
YearsNamed(cs) ==
    {cs[c].year : c \in {x \in CompanyIds : cs[x].present /\ HasYear(cs[x].year)}}

Selected(cs) == {c \in CompanyIds : cs[c].present /\ cs[c].finalSelection}

\* a student whose status and offers agree with its companyStatus
\* (and, with an empty map, without a currentStatus field)
StudentWith(roll, email, cs) ==
    Student(roll, email,
            IF cs = EmptyStatus THEN "none"
            ELSE IF Selected(cs) = {} THEN "not_placed" ELSE "placed",
            Cardinality(Selected(cs)), cs)

CascadeNext(p) ==
    \/ delete_student_cascade(p)
    \/ cascade_company(p)
    \/ cascade_round(p)
    \/ cascade_company_update(p)
    \/ cascade_years(p)
    \/ cascade_delete_student(p)
    \/ cascade_second_delete(p)
    \/ delete_student(p)

\* the collections before a cascading deletion: two students, one more
\* identifier free
InitCascadeDocs ==
    /\ students \in
          {[s \in StudentIds |->
              CASE s = "s1" -> StudentWith("r1", "e1", a)
                [] s = "s2" -> StudentWith("r2", "e2", StatusOf2)
                [] OTHER -> NoStudent] :
           a \in StatusOf1}
    /\ usedIds = {s \in StudentIds : students[s].exists}
    /\ companies =
          [c \in CompanyIds |->
              CASE c = "c1" -> Company("running", 2025, 2, 2)
                [] c = "c2" ->
                     Company("completed",
                             IF students["s1"].companyStatus["c2"].present
                             THEN students["s1"].companyStatus["c2"].year
                             ELSE 2026, 0, 0)
                [] OTHER -> NoCompany]
    /\ years \in
          {[y \in YearIds |-> IF y = 2025 THEN YearDoc(2, 1, {"c1"}) ELSE b] :
           b \in {YearDoc(0, 0, {})} \cup
                 (IF 2026 \in YearsNamed(students["s1"].companyStatus)
                  THEN {NoYearDoc} ELSE {})}
    /\ systemStats = NoStats
    /\ now = 0
    /\ placements =
          {<<c, s>> \in CompanyIds \X StudentIds :
              students[s].exists /\ c \in Selected(students[s].companyStatus)}
    /\ users = NoUsers
    /\ issued = NoIssued
    /\ auth = NoAuth
    /\ rounds = [c \in CompanyIds |-> IF c = "c1" THEN 2 ELSE 1]
    /\ roundData = {<<"c1", 1, "s1", 1>>, <<"c2", 1, "s1", 1>>,
                    <<"c1", 1, "s2", 2>>, <<"c1", 2, "s2", 1>>}

\* one cascading deletion at a time, beside one caller creating students
\* and rebuilding or reading the counters
InitCascade ==
    /\ InitCascadeDocs
    /\ call = [p \in Procs |-> IF p = "p1" THEN IdleCall ELSE OffCall]
    /\ cas = [p \in Procs |-> IF p = "p1" THEN IdleCas ELSE OffCas]
    /\ last = NoLast
    /\ rebuilt = FALSE

NextCascade ==
    \E p \in Procs :
        \/ CascadeNext(p)
        \/ create_student(p)
        \/ create_student_write(p)
        \/ initialize_system_stats(p)
        \/ initialize_system_stats_write(p)
        \/ get_system_stats(p)

SpecCascade == InitCascade /\ [][NextCascade]_vars

\* ------------------------------------------ dashboard beside cascade deletion
\* five or six Company-Years, three of them of the current year, one of those
\* without a name; the current Year document absent, with an empty
\* companyWise map or with one entry
InitDash ==
    /\ students \in
          {[s \in StudentIds |->
              IF s = "s1" THEN StudentWith("r1", "e1", a) ELSE NoStudent] :
           a \in {[EmptyStatus EXCEPT !["c1"] = Entry(2025, TRUE)],
                  [EmptyStatus EXCEPT !["c1"] = Entry(2025, FALSE),
                                      !["c2"] = Entry(2026, TRUE)]}}
    /\ usedIds = {s \in StudentIds : students[s].exists}
    /\ companies \in
          {[c \in CompanyIds |->
              CASE c = "c1" -> Company("running", 2025, 2, 2)
                [] c = "c2" -> Company("completed", 2026, 1, 1)
                [] c = "c3" -> Company("running", 2026, 3, 2)
                [] c = "c4" -> [Company("unknown", 2026, 0, 0)
                                  EXCEPT !.companyName = ""]
                [] c = "c5" -> Company("completed", 2025, 1, 0)
                [] OTHER -> b] :
           b \in {NoCompany, Company("completed", 2025, 1, 1)}}
    /\ years \in
          {[y \in YearIds |-> IF y = 2025 THEN YearDoc(2, 1, {"c1"}) ELSE b] :
           b \in {NoYearDoc, YearDoc(0, 0, {}), YearDoc(1, 1, {"c2"})}}
    /\ systemStats = NoStats
    /\ now = 0
    /\ placements =
          {<<c, s>> \in CompanyIds \X StudentIds :
              students[s].exists /\ c \in Selected(students[s].companyStatus)}
    /\ users = NoUsers
    /\ issued = NoIssued
    /\ auth = NoAuth
    /\ rounds = [c \in CompanyIds |-> 1]
    /\ roundData = {<<"c1", 1, "s1", 1>>}
    /\ call = [p \in Procs |-> IF p = "p1" THEN IdleCall ELSE OffCall]
    /\ cas = [p \in Procs |-> IF p = "p1" THEN IdleCas ELSE OffCas]
    /\ last = NoLast
    /\ rebuilt = FALSE

NextDash ==
    \E p \in Procs :
        \/ CascadeNext(p)
        \/ get_dashboard_summary(p)
        \/ dashboard_year(p)
        \/ dashboard_repair(p)
        \/ dashboard_recent(p)

SpecDash == InitDash /\ [][NextDash]_vars

\* ------------------------------------------- the singleton's whole lifecycle
\* the record is absent; one caller maintains the counters, deletes the
\* student and requests the dashboard
InitLife ==
    /\ students = [s \in StudentIds |->
                      IF s = "s1"
                      THEN StudentWith("r1", "e1",
                              [EmptyStatus EXCEPT !["c1"] = Entry(2025, TRUE)])
                      ELSE NoStudent]
    /\ usedIds = {s \in StudentIds : students[s].exists}
    /\ companies = [c \in CompanyIds |->
                       CASE c = "c1" -> Company("running", 2025, 2, 2)
                         [] c = "c2" -> Company("completed", 2026, 1, 1)
                         [] OTHER -> NoCompany]
    /\ years = [y \in YearIds |->
                  IF y = 2025 THEN YearDoc(2, 1, {"c1"}) ELSE NoYearDoc]
    /\ systemStats = NoStats
    /\ now = 0
    /\ placements = {<<"c1", "s1">>}
    /\ users = NoUsers
    /\ issued = NoIssued
    /\ auth = NoAuth
    /\ rounds = [c \in CompanyIds |-> 1]
    /\ roundData = {<<"c1", 1, "s1", 1>>}
    /\ call = [p \in Procs |-> IF p = "p1" THEN IdleCall ELSE OffCall]
    /\ cas = [p \in Procs |-> IF p = "p1" THEN IdleCas ELSE OffCas]
    /\ last = NoLast
    /\ rebuilt = FALSE

NextLife ==
    \E p \in Procs :
        \/ increment_stat(p)
        \/ decrement_stat(p)
        \/ increment_stat_safe_update(p)
        \/ increment_stat_create_zero(p)
        \/ increment_stat_except(p)
        \/ set_stat(p)
        \/ get_system_stats(p)
        \/ initialize_system_stats(p)
        \/ initialize_system_stats_write(p)
        \/ CascadeNext(p)
        \/ get_dashboard_summary(p)
        \/ dashboard_year(p)
        \/ dashboard_repair(p)
        \/ dashboard_recent(p)

SpecLife == InitLife /\ [][NextLife]_vars

\* ----------------------------------------- cascade deletion of a large student
\* most rounds holding a row of the student under one Company-Year
MaxRounds == 499

\* one student whose rows under c1 fill a batch
InitLargeDocs ==
    /\ students \in
          {[s \in StudentIds |->
              IF s = "s1"
              THEN StudentWith("r1", "e1",
                     [EmptyStatus EXCEPT !["c1"] = Entry(y, sel), !["c2"] = b])
              ELSE NoStudent] :
           y \in {NoYear, 2025}, sel \in BOOLEAN,
           b \in {NoEntry, Entry(2025, TRUE)}}
    /\ usedIds = {s \in StudentIds : students[s].exists}
    /\ companies = [c \in CompanyIds |->
                       IF c \in {"c1", "c2"} THEN Company("running", 2025, 2, 2)
                       ELSE NoCompany]
    /\ years = [y \in YearIds |-> YearDoc(2, 1, {"c1"})]
    /\ systemStats = NoStats
    /\ now = 0
    /\ placements =
          {<<c, s>> \in CompanyIds \X StudentIds :
              students[s].exists /\ c \in Selected(students[s].companyStatus)}
    /\ users = NoUsers
    /\ issued = NoIssued
    /\ auth = NoAuth
    /\ rounds \in {[c \in CompanyIds |-> IF c = "c1" THEN n ELSE 1] :
                    n \in (MaxRounds - 2)..MaxRounds}
    /\ roundData = {<<"c1", r, "s1", 1>> : r \in 1..rounds["c1"]}
                      \cup {<<"c2", 1, "s1", 1>>}

\* a student with two rows in one round of c1, and with a placement and a
\* row under Company-Years that its companyStatus does not list
InitTwoRowDocs ==
    /\ students \in
          {[s \in StudentIds |->
              CASE s = "s1" -> StudentWith("r1", "e1", a)
                [] s = "s2" -> StudentWith("r2", "e2", StatusOf2)
                [] OTHER -> NoStudent] :
           a \in {[EmptyStatus EXCEPT !["c1"] = Entry(2025, TRUE)],
                  [EmptyStatus EXCEPT !["c1"] = Entry(NoYear, FALSE),
                                      !["c2"] = Entry(2026, TRUE)]}}
    /\ usedIds = {s \in StudentIds : students[s].exists}
    /\ companies = [c \in CompanyIds |->
                       CASE c = "c1" -> Company("running", 2025, 2, 2)
                         [] c = "c2" -> Company("completed", 2026, 1, 1)
                         [] c = "c3" -> Company("running", 2026, 1, 1)
                         [] OTHER -> NoCompany]
    /\ years = [y \in YearIds |->
                  IF y = 2025 THEN YearDoc(2, 1, {"c1"})
                  ELSE YearDoc(1, 1, {"c2"})]
    /\ systemStats = NoStats
    /\ now = 0
    /\ placements =
          {<<c, s>> \in CompanyIds \X StudentIds :
              students[s].exists /\ c \in Selected(students[s].companyStatus)}
            \cup {<<"c3", "s1">>}
    /\ users = NoUsers
    /\ issued = NoIssued
    /\ auth = NoAuth
    /\ rounds = [c \in CompanyIds |-> IF c = "c1" THEN 2 ELSE 1]
    /\ roundData = {<<"c1", 1, "s1", 1>>, <<"c1", 1, "s1", 2>>,
                    <<"c1", 2, "s1", 1>>, <<"c2", 1, "s1", 1>>,
                    <<"c3", 1, "s1", 1>>,
                    <<"c1", 1, "s2", 1>>, <<"c1", 2, "s2", 1>>}

\* cascading deletions alone, one at a time
InitBatch ==
    /\ InitLargeDocs \/ InitCascadeDocs \/ InitTwoRowDocs
    /\ call = [p \in Procs |-> OffCall]
    /\ cas = [p \in Procs |-> IF p = "p1" THEN IdleCas ELSE OffCas]
    /\ last = NoLast
    /\ rebuilt = FALSE

NextBatch == \E p \in Procs : CascadeNext(p)

SpecBatch == InitBatch /\ [][NextBatch]_vars

\* ------------------------------------- cascade deletion with failing store calls
\* cascading deletions one at a time, each of which may fail or stop at any
\* point and be run again
NextCrash ==
    \E p \in Procs :
        \/ CascadeNext(p)
        \/ cascade_fails(p)

SpecCrash == InitBatch /\ [][NextCrash]_vars

\* ------------------------------------------------- two concurrent cascades
\* two requests each run one cascading deletion, of the same student or of
\* two students; every document the students reference is stored
InitTwo ==
    /\ InitCascadeDocs
    /\ \A s \in StudentIds :
          students[s].exists =>
             \A y \in YearsNamed(students[s].companyStatus) : years[y].exists
    /\ call = [p \in Procs |-> OffCall]
    /\ cas = [p \in Procs |-> IdleCas]
    /\ last = NoLast
    /\ rebuilt = FALSE

NextTwo ==
    \E p \in Procs :
        \/ delete_student_cascade(p)
        \/ cascade_company(p)
        \/ cascade_round(p)
        \/ cascade_company_update(p)
        \/ cascade_years(p)
        \/ cascade_delete_student(p)
        \/ cascade_second_delete(p)

SpecTwo == InitTwo /\ [][NextTwo]_vars

\* -------------------------------------------------- authentication behaviours
\* two users without a refresh token; two requests log in and refresh
InitAuth ==
    /\ students = [s \in StudentIds |-> NoStudent]
    /\ usedIds = {}
    /\ companies = [c \in CompanyIds |-> NoCompany]
    /\ years = [y \in YearIds |-> NoYearDoc]
    /\ systemStats = NoStats
    /\ now = 0
    /\ placements = {}
    /\ rounds = [c \in CompanyIds |-> 0]
    /\ roundData = {}
    /\ call = [p \in Procs |-> OffCall]
    /\ cas = [p \in Procs |-> OffCas]
    /\ last = NoLast
    /\ rebuilt = FALSE
    /\ users = [u \in UserIds |->
                  IF u = "u1" THEN UserDoc("alice") ELSE UserDoc("bob")]
    /\ issued = NoIssued
    /\ auth = NoAuth

NextAuth ==
    \/ \E p \in Procs :
          \/ login(p)
          \/ login_store(p)
          \/ refresh(p)
    \/ \E u \in UserIds : delete_user(u)
    \/ utcnow_advances

SpecAuth == InitAuth /\ [][NextAuth]_vars

\* -------------------------------------------- properties: counter maintainer
\* C4: in every reachable state, after any sequence and interleaving of
\* increment, decrement, setStat and rebuild calls, every counter field of the
\* SystemStats record is >= 0.
C4_CountersNonNegative ==
    \A f \in CounterFields :
        f \in systemStats.has => systemStats.val[f] >= 0

\* C5: a decrement that found the stored value c >= 0 and was asked for an
\* amount n with c - n < 0 leaves the stored value of the field equal to 0.
C5_ClampedDecrement ==
    ( /\ last.fn = "decrement_stat"
      /\ last.existed /\ last.had
      /\ last.current_value >= 0
      /\ last.current_value + last.value < 0 )
    => ( /\ last.field \in systemStats.has
         /\ systemStats.val[last.field] = 0 )

\* a decrement of a positive stored value by more than that value returned
C5_Witness ==
    /\ last.fn = "decrement_stat"
    /\ last.outcome = "updated"
    /\ last.had
    /\ last.current_value > 0
    /\ last.current_value + last.value < 0
    /\ systemStats.val[last.field] = 0

\* C6: for a field never set, increment(field, v) leaves the record holding
\* the field with value v when v >= 0 and with value 0 when v < 0, both when
\* the record is absent and when it exists without the field.
C6_NeverSetIncrement ==
    (last.fn = "increment_stat" /\ ~last.had)
    => ( /\ systemStats.exists
         /\ last.field \in systemStats.has
         /\ systemStats.val[last.field] =
              (IF last.value >= 0 THEN last.value ELSE 0) )

\* C6 as amended: as above, except that with v < 0 on an existing record
\* without the field no write is issued and the field stays absent.
C6_NeverSetIncrementAmended ==
    (last.fn = "increment_stat" /\ ~last.had)
    => IF last.value < 0 /\ last.existed
       THEN /\ last.field \notin systemStats.has
            /\ systemStats.lastUpdated = last.stamp
       ELSE /\ systemStats.exists
            /\ last.field \in systemStats.has
            /\ systemStats.val[last.field] =
                 (IF last.value >= 0 THEN last.value ELSE 0)

\* an increment with v < 0 of a never-set field of an existing record returned
C6_Witness ==
    /\ last.fn = "increment_stat"
    /\ ~last.had /\ last.existed
    /\ last.value < 0
    /\ last.outcome = "skipped"
    /\ last.field \notin systemStats.has

\* C7: decrement(field, 0) applied when the stored value of the field is
\* already 0 issues no write: neither the field nor lastUpdated changes.
C7_DecrementZeroNoWrite ==
    ( /\ last.fn = "decrement_stat"
      /\ last.value = 0
      /\ last.existed /\ last.had
      /\ last.current_value = 0 )
    => ( /\ systemStats.lastUpdated = last.stamp
         /\ last.field \in systemStats.has
         /\ systemStats.val[last.field] = 0 )

\* ------------------------------------------------- properties: full rebuild
\* the counters a reader of the three collections computes directly
FullScan ==
    LET present == {s \in StudentIds : students[s].exists}
        placed == {s \in present : students[s].currentStatus = "placed"}
        offers == {<<s, i>> \in present \X (1..Cardinality(CompanyIds)) :
                      i <= students[s].totalOffers}
        live == {c \in CompanyIds : companies[c].exists}
    IN [totalYears |-> Cardinality({y \in YearIds : years[y].exists}),
        totalCompanies |-> Cardinality(live),
        completedCompanies |->
            Cardinality({c \in live : companies[c].status = "completed"}),
        runningCompanies |->
            Cardinality({c \in live : companies[c].status = "running"}),
        totalStudents |-> Cardinality(present),
        totalPlaced |-> Cardinality(placed),
        totalNotPlaced |-> Cardinality(present) - Cardinality(placed),
        totalOffers |-> Cardinality(offers)]

\* C8: a getStats() that directly follows a rebuildFromSource() of the same
\* caller, with no write to the store between the rebuild's scan and now,
\* returns the eight counters equal to an independent full scan of the
\* Years, Companies and Students collections in the current state.
C8_RebuildEquivalence ==
    (last.fn = "get_system_stats" /\ last.quiet)
    => \A f \in CounterFields :
          f \in last.result.has /\ last.result.val[f] = FullScan[f]

\* such a read returned while a student without currentStatus and a placed
\* student with an offer exist
C8_Witness ==
    /\ last.fn = "get_system_stats"
    /\ last.quiet
    /\ last.result.val["totalNotPlaced"] > 0
    /\ last.result.val["totalOffers"] > 0
    /\ \E s \in StudentIds : students[s].exists /\ students[s].currentStatus = "none"

\* C9: once SystemStats has been rebuilt from the current collections, and
\* only student creations and successful cascade deletions have run since,
\* whenever no request is in progress totalStudents equals the number of
\* Student documents and totalPlaced, totalNotPlaced and totalOffers equal
\* what a rebuild would compute in that state.
C9_DerivedViewsInSync ==
    (rebuilt /\ Quiescent)
    => /\ systemStats.exists
       /\ systemStats.val["totalStudents"] =
             Cardinality({s \in StudentIds : students[s].exists})
       /\ \A f \in {"totalPlaced", "totalNotPlaced", "totalOffers"} :
             systemStats.val[f] = ScanStats(years, companies, students)[f]

\* ------------------------------------------------ properties: cascade deletion
\* C1: a deleteStudentCascade for an identifier with no Student document
\* raises NotFound (ValueError) in the step that fetched the document, has
\* committed no batch, and neither that step nor the return of the error
\* changes any document of the store.
C1_NotFoundNoWrites ==
    [][\A p \in Procs :
        /\ ( /\ cas[p].pc = "idle"
             /\ cas'[p].pc \notin {"idle", "off"}
             /\ ~students[cas'[p].student_id].exists )
           => ( /\ cas'[p].pc = "raised"
                /\ cas'[p].error = "ValueError"
                /\ cas'[p].committed = <<>>
                /\ UNCHANGED <<students, companies, years, placements,
                               rounds, roundData, systemStats>> )
        /\ ( /\ cas[p].pc = "raised"
             /\ cas[p].error = "ValueError"
             /\ cas'[p].pc # cas[p].pc )
           => ( /\ cas[p].committed = <<>>
                /\ UNCHANGED <<students, companies, years, placements,
                               rounds, roundData, systemStats>> )
      ]_vars

\* a cascade for an absent identifier has raised NotFound
C1_Witness ==
    \E p \in Procs :
        /\ cas[p].pc = "raised"
        /\ cas[p].error = "ValueError"
        /\ ~cas[p].found
        /\ ~students[cas[p].student_id].exists

\* C2: when a cascade has returned and no other request has written since it
\* started, with N the Company-Years its student referenced and M those with
\* finalSelection: exactly the M placements of the student are gone (M
\* placement deletions), the Student document is absent, totalApplied of each
\* of the N is one less than before (also from 0), totalPlaced is one less for
\* exactly the M placed ones, and no other Company-Year changed.
C2_CascadeCompleteness ==
    \A p \in Procs :
        (cas[p].pc = "returned" /\ cas[p].quiet)
        => LET s == cas[p].student_id
               cs == cas[p].company_status
               N == {c \in CompanyIds : cs[c].present}
               M == {c \in N : cs[c].finalSelection}
               before == cas[p].pre
           IN /\ cas[p].placementsDeleted = Cardinality(M)
              /\ placements = before.placements \ {<<c, s>> : c \in M}
              /\ ~students[s].exists
              /\ \A c \in N :
                    /\ companies[c].totalApplied =
                          before.companies[c].totalApplied - 1
                    /\ companies[c].totalPlaced =
                          before.companies[c].totalPlaced
                            - (IF c \in M THEN 1 ELSE 0)
              /\ \A c \in CompanyIds \ N : companies[c] = before.companies[c]

\* a cascade returned for a student of two Company-Years, one of them placed,
\* the other with totalApplied 0 before
C2_Witness ==
    \E p \in Procs :
        /\ cas[p].pc = "returned"
        /\ cas[p].quiet
        /\ cas[p].companiesAffected = 2
        /\ cas[p].placementsDeleted = 1
        /\ \E c \in CompanyIds :
              /\ cas[p].company_status[c].present
              /\ ~cas[p].company_status[c].finalSelection
              /\ cas[p].pre.companies[c].totalApplied = 0
              /\ companies[c].totalApplied = 0 - 1

\* C3: every batch a cascade hands to batch.commit() holds at most K writes.
C3_BatchCeiling ==
    \A p \in Procs :
        \A i \in DOMAIN cas[p].committed : cas[p].committed[i] <= K

\* C10: when a cascade has returned and no other request has written since
\* it started, every year Y named in the student's companyStatus has
\* totalStudentsParticipated one less than before, companyWise.<id>.placed
\* one less for each entry of year Y with finalSelection (and unchanged for
\* the others), and totalPlaced less by the number of such entries.
C10_YearRollups ==
    \A p \in Procs :
        (cas[p].pc = "returned" /\ cas[p].quiet)
        => LET cs == cas[p].company_status
               before == cas[p].pre
           IN \A Y \in YearIds :
                LET ofY == {c \in CompanyIds : cs[c].present /\ cs[c].year = Y}
                    placedY == {c \in ofY : cs[c].finalSelection}
                IN ofY # {}
                   => /\ years[Y].totalStudentsParticipated =
                            before.years[Y].totalStudentsParticipated - 1
                      /\ years[Y].totalPlaced =
                            before.years[Y].totalPlaced - Cardinality(placedY)
                      /\ \A c \in CompanyIds :
                            years[Y].cwPlaced[c] =
                              before.years[Y].cwPlaced[c]
                                - (IF c \in placedY THEN 1 ELSE 0)

\* a cascade returned for a student with two placed entries in one year
C10_Witness ==
    \E p \in Procs :
        /\ cas[p].pc = "returned"
        /\ cas[p].quiet
        /\ \E Y \in YearIds :
              /\ \A c \in {"c1", "c2"} :
                    /\ cas[p].company_status[c].present
                    /\ cas[p].company_status[c].year = Y
                    /\ cas[p].company_status[c].finalSelection
              /\ years[Y].totalStudentsParticipated =
                    cas[p].pre.years[Y].totalStudentsParticipated - 1
              /\ years[Y].totalPlaced = cas[p].pre.years[Y].totalPlaced - 2

\* C11: a cascade for a Student whose companyStatus map is empty changes no
\* document other than that Student document in any of its steps, and when
\* it has returned the Student document is absent and the summary reports
\* companiesAffected, roundsDeleted, placementsDeleted and yearsAffected as 0.
C11_EmptyStatusOnlyStudent ==
    /\ [](\A p \in Procs :
            (cas[p].pc = "returned" /\ cas[p].pre.student.exists
                /\ cas[p].pre.student.companyStatus = EmptyStatus)
            => /\ ~students[cas[p].student_id].exists
               /\ cas[p].result.companiesAffected = 0
               /\ cas[p].result.roundsDeleted = 0
               /\ cas[p].result.placementsDeleted = 0
               /\ cas[p].result.yearsAffected = 0)
    /\ [][\A p \in Procs :
            ( /\ cas[p].pc \in {"company_loop", "round_loop", "delete_student",
                                "second_delete", "returned"}
              /\ cas[p].pre.student.exists
              /\ cas[p].pre.student.companyStatus = EmptyStatus
              /\ cas'[p].pc # cas[p].pc )
            => /\ UNCHANGED <<companies, years, placements, rounds, roundData,
                              systemStats>>
               /\ \A s \in StudentIds \ {cas[p].student_id} :
                     students'[s] = students[s]
       ]_vars

\* a cascade returned for an existing student with an empty companyStatus
\* after committing its two batches of one deletion each
C11_Witness ==
    \E p \in Procs :
        /\ cas[p].pc = "returned"
        /\ cas[p].pre.student.exists
        /\ cas[p].pre.student.companyStatus = EmptyStatus
        /\ cas[p].committed = <<1, 1>>
        /\ ~students[cas[p].student_id].exists

\* C12: the summary of a returned cascade reports companiesAffected = number
\* of companyStatus entries, placementsDeleted = number of entries with
\* finalSelection, roundsDeleted = number of rounds of those Company-Years
\* holding a row of the student, yearsAffected = number of distinct years,
\* and carries the Student's name and pre-deletion totalOffers.
C12_SummaryContents ==
    \A p \in Procs :
        (cas[p].pc = "returned" /\ cas[p].quiet)
        => LET before == cas[p].pre
               s == cas[p].student_id
               cs == before.student.companyStatus
               N == {c \in CompanyIds : cs[c].present}
               r == cas[p].result
           IN /\ r.companiesAffected = Cardinality(N)
              /\ r.placementsDeleted =
                    Cardinality({c \in N : cs[c].finalSelection})
              /\ r.roundsDeleted =
                    Cardinality({x \in N \X (1..(MaxRounds + 1)) :
                        /\ x[2] <= rounds[x[1]]
                        /\ \E k \in 1..2 :
                              <<x[1], x[2], s, k>> \in before.roundData})
              /\ r.yearsAffected =
                    Cardinality({cs[c].year : c \in {x \in N : cs[x].year # NoYear}})
              /\ "studentName" \in r.keys
              /\ r.studentName = before.student.name
              /\ "totalOffers" \in r.keys

\* C17: the DELETE route answers 404 exactly when the cascade raised because
\* the Student document was absent, 500 when it raised after finding the
\* document, and 200 carrying the cascade's summary when it returned.
C17_RouteStatus ==
    [][\A p \in Procs :
        (cas[p].pc \in {"returned", "raised"} /\ cas'[p].pc = "idle")
        => /\ last'.fn = "delete_student"
           /\ (last'.outcome = "404") <=> (cas[p].pc = "raised" /\ ~cas[p].found)
           /\ (last'.outcome = "500") <=> (cas[p].pc = "raised" /\ cas[p].found)
           /\ (last'.outcome = "200") <=> (cas[p].pc = "returned")
           /\ cas[p].pc = "returned"
                => /\ last'.summary = cas[p].result
                   /\ last'.summary.studentId = cas[p].student_id
      ]_vars

\* the route answered 500 to a cascade that failed after finding the student
C17_Witness ==
    /\ last.fn = "delete_student"
    /\ last.outcome = "500"

\* ------------------------------------------ properties: reads and overwrites
\* C13: a step in which getStats() returns changes no document of the store
\* (the SystemStats record is not created when absent), and when the record
\* is absent the value returned holds the eight counters, each 0, and an
\* empty lastUpdated.
C13_GetNeverWrites ==
    [][( /\ last'.fn = "get_system_stats"
         /\ last' # last
         /\ last' # [last EXCEPT !.quiet = FALSE] )
       => /\ UNCHANGED <<systemStats, students, companies, years, placements,
                         rounds, roundData>>
          /\ ~systemStats.exists
                => /\ last'.result.has = CounterFields
                   /\ \A f \in CounterFields : last'.result.val[f] = 0
                   /\ last'.result.lastUpdated = 0
      ]_vars

\* getStats() returned while the record was absent, and it is still absent
C13_Witness ==
    /\ last.fn = "get_system_stats"
    /\ ~last.existed
    /\ ~systemStats.exists

\* C14: a step in which setStat(field, value) writes leaves the record
\* holding field = value with lastUpdated restamped, every other field
\* (present or absent, and initializedAt) as it was, and, when the record was
\* absent, holding only that field.
C14_SetStatMerges ==
    [][(systemStats' # systemStats /\ last'.fn = "set_stat" /\ last' # last)
       => LET f == last'.field
          IN /\ systemStats'.exists
             /\ f \in systemStats'.has
             /\ systemStats'.val[f] = last'.value
             /\ systemStats'.lastUpdated = now'
             /\ now' > now
             /\ systemStats'.initializedAt = systemStats.initializedAt
             /\ \A g \in Fields \ {f} :
                   /\ (g \in systemStats'.has) <=> (g \in systemStats.has)
                   /\ g \in systemStats.has
                         => systemStats'.val[g] = systemStats.val[g]
             /\ ~systemStats.exists => systemStats'.has = {f}
      ]_vars

\* setStat returned on a record that already held another field
C14_Witness ==
    /\ last.fn = "set_stat"
    /\ last.existed
    /\ \E g \in Fields \ {last.field} :
          g \in systemStats.has /\ systemStats.val[g] # 0

\* C15: a step in which rebuildFromSource() writes leaves the record holding
\* exactly the eight counters with lastUpdated and initializedAt stamped
\* (any other field is gone); and when the call that returned last was a
\* rebuild and no document has been written between that rebuild's scan and
\* this rebuild's write, the counters stored are the same as before.
C15_RebuildWholesaleIdempotent ==
    [][\A p \in Procs :
        ( /\ call[p].pc = "init_write"
          /\ call'[p].pc = "idle"
          /\ systemStats' # systemStats )
        => /\ systemStats'.exists
           /\ systemStats'.has = CounterFields
           /\ systemStats'.lastUpdated = now'
           /\ systemStats'.initializedAt = now'
           /\ ( /\ last.fn = "initialize_system_stats"
                /\ last.quiet
                /\ call[p].quiet )
              => \A f \in CounterFields :
                    systemStats'.val[f] = systemStats.val[f]
      ]_vars

\* a rebuild returned on a record that held a field outside the eight
\* counters, and the field is gone
C15_Witness ==
    /\ last.fn = "initialize_system_stats"
    /\ last.had
    /\ ExtraField \notin systemStats.has

\* a second rebuild returned directly after a first, with a student created
\* before them
C15_WitnessTwice ==
    /\ last.fn = "initialize_system_stats"
    /\ last.quiet
    /\ last.existed
    /\ systemStats.initializedAt = 2
    /\ systemStats.val["totalStudents"] = 2

\* C18: in every reachable state no two Student documents share a roll
\* number or an e-mail address.
C18_UniqueRollAndEmail ==
    \A s, u \in StudentIds :
        (s # u /\ students[s].exists /\ students[u].exists)
        => /\ students[s].rollNumber # students[u].rollNumber
           /\ students[s].email # students[u].email

\* C16: a call one of whose store calls raised ends with an error for its
\* caller (and so without a later write of its own).
C16_FailuresSurface ==
    last.failed => last.outcome = "error"

\* ------------------------------------------------------ properties: dashboard
\* C19: every getDashboardSummary answers 200; when it found no Year document
\* of the current year it answers with the synthesized Year; and when nothing
\* was written since the request began and the Year document is absent or its
\* companyWise map is empty, the returned companyWise holds exactly the
\* Company-Year documents of the current year, each as companyName, placed
\* (the company's totalPlaced) and status.
C19_DashboardRepair ==
    last.fn = "get_dashboard_summary"
    => /\ last.outcome = "200"
       /\ last.dash.year = 2026
       /\ ~last.dash.yearFound => last.dash.totalPlaced = 0
       /\ ( /\ last.quiet
            /\ ~years[2026].exists \/ years[2026].cwKeys = {} )
          => /\ last.dash.cwKeys =
                   {c \in CompanyIds : companies[c].exists
                                        /\ companies[c].year = 2026}
             /\ \A c \in last.dash.cwKeys :
                   /\ last.dash.companyWise[c].placed = companies[c].totalPlaced
                   /\ last.dash.companyWise[c].status = companies[c].status
                   /\ last.dash.companyWise[c].companyName =
                         (IF companies[c].companyName = "" THEN "Unknown"
                          ELSE companies[c].companyName)

\* a summary returned while the current Year document is absent, with three
\* Company-Years of the current year in its companyWise
C19_Witness ==
    /\ last.fn = "get_dashboard_summary"
    /\ last.quiet
    /\ ~years[2026].exists
    /\ Cardinality(last.dash.cwKeys) = 3
    /\ \E c \in last.dash.cwKeys : last.dash.companyWise[c].companyName = "Unknown"

\* C20: recentCompanies never has more than 5 entries, and a
\* getDashboardSummary that read a non-empty companyWise map from the current
\* Year document counted at most 7 reads: 1 SystemStats, 1 Year and one per
\* recent Company-Year; with no write since the request began, a stored
\* non-empty companyWise is the one that was read.
C20_BoundedReads ==
    last.fn = "get_dashboard_summary"
    => /\ Cardinality(last.dash.recent) <= 5
       /\ ~last.dash.repaired
            => /\ last.dash.reads <= 7
               /\ last.dash.reads = 2 + Cardinality(last.dash.recent)
       /\ ( /\ last.quiet
            /\ years[2026].exists
            /\ years[2026].cwKeys # {} )
          => ~last.dash.repaired

\* a summary that counted 7 reads with six Company-Years in the store
C20_Witness ==
    /\ last.fn = "get_dashboard_summary"
    /\ ~last.dash.repaired
    /\ last.dash.reads = 7
    /\ Cardinality({c \in CompanyIds : companies[c].exists}) = 6

\* ------------------------------------------------ properties: lost decrement
\* C21: when two decrement(field, 1) calls have both read the same version of
\* the record, holding the value c >= 2, and one of them has written and
\* returned, the record holds c - 1, and the write of the other leaves it at
\* c - 1 again: the two decrements lower the value by one, not by two.
C21_LostDecrement ==
    [][\A p \in Procs : \A q \in Procs \ {p} :
        ( /\ last.p = p
          /\ last.fn = "decrement_stat"
          /\ last.outcome = "updated"
          /\ last.value = 0 - 1
          /\ call[q].pc = "safe_update"
          /\ call[q].fn = "decrement_stat"
          /\ call[q].value = 0 - 1
          /\ call[q].field = last.field
          /\ call[q].stamp = last.stamp
          /\ call[q].current_value = last.current_value
          /\ last.current_value >= 2
          /\ call'[q].pc = "idle" )
        => /\ systemStats.val[last.field] = last.current_value - 1
           /\ systemStats'.val[last.field] = last.current_value - 1
           /\ systemStats'.val[last.field] # last.current_value - 2
      ]_vars

\* a decrement by one returned after writing c - 1, having read c >= 2 from a
\* version of the record that one other decrement by one has overwritten in
\* between: two decrements were applied and the record holds c - 1
C21_Witness ==
    /\ last.fn = "decrement_stat"
    /\ last.outcome = "updated"
    /\ last.value = 0 - 1
    /\ last.current_value >= 2
    /\ systemStats.lastUpdated = last.stamp + 2
    /\ systemStats.val[last.field] = last.current_value - 1

\* ------------------------------------------- properties: failure between commits
\* the Company-Years a companyStatus map references
Referenced(cs) == {c \in CompanyIds : cs[c].present}

\* the store as request p's cascade found it: at the first of its failed
\* attempts when the cascade has raised, at its start otherwise
Before(p) == IF cas[p].pc = "raised" THEN cas[p].first ELSE cas[p].pre

\* request p's cascade found its student, and no other request has written
\* to the store since the state Before(p)
Tracked(p) ==
    /\ cas[p].pc \notin {"idle", "off"}
    /\ Before(p).student_id = cas[p].student_id
    /\ Before(p).student.exists
    /\ cas[p].pc # "raised" => cas[p].quiet

\* C22 as amended: wherever a cascade stands or has failed, when its Student
\* document is gone every Company-Year the Student referenced has already
\* had totalApplied decremented (and totalPlaced, when the student was
\* placed there): the Student deletion is committed with or after the last
\* Company-Year update, so a failure between two commits leaves counters
\* decremented with the Student still stored, never the reverse.
C22_StudentDeletedLast ==
    \A p \in Procs :
        (Tracked(p) /\ ~students[cas[p].student_id].exists)
        => \A x \in Referenced(Before(p).student.companyStatus) :
              /\ companies[x].totalApplied < Before(p).companies[x].totalApplied
              /\ Before(p).student.companyStatus[x].finalSelection
                    => companies[x].totalPlaced < Before(p).companies[x].totalPlaced

\* a cascade of a student referencing a Company-Year failed between the commit
\* that deleted the Student and the commit that follows it
C22_Witness ==
    \E p \in Procs :
        /\ Tracked(p)
        /\ cas[p].pc = "raised"
        /\ cas[p].error = "Exception"
        /\ ~cas[p].refused
        /\ Len(cas[p].committed) >= 1
        /\ ~students[cas[p].student_id].exists
        /\ Referenced(Before(p).student.companyStatus) # {}

\* C22: a cascade that failed between two of its commits with the Student
\* document deleted holds a Company-Year referenced by that Student whose
\* counters have not been decremented.
C22_StudentDeletedCountersPending ==
    \A p \in Procs :
        ( /\ Tracked(p)
          /\ cas[p].pc = "raised"
          /\ cas[p].error = "Exception"
          /\ Len(cas[p].committed) >= 1
          /\ ~students[cas[p].student_id].exists
          /\ Referenced(Before(p).student.companyStatus) # {} )
        => \E x \in Referenced(Before(p).student.companyStatus) :
              companies[x].totalApplied = Before(p).companies[x].totalApplied

\* the batches of request p's cascade that the store has applied
AppliedBatches(p) ==
    Len(cas[p].committed) - (IF cas[p].refused THEN 1 ELSE 0)

\* the write `op` of a batch is in effect after the step
OpApplied(op) ==
    CASE op.kind = "delete_placement" -> <<op.c, op.s>> \notin placements'
      [] op.kind = "delete_row" -> <<op.c, op.r, op.s, op.k>> \notin roundData'
      [] op.kind = "update_company" ->
            /\ companies'[op.c].totalApplied = companies[op.c].totalApplied - 1
            /\ companies'[op.c].updatedAt = now'
      [] op.kind = "update_year" ->
            /\ years'[op.y].totalStudentsParticipated =
                  years[op.y].totalStudentsParticipated - 1
            /\ years'[op.y].updatedAt = now'
      [] op.kind = "delete_student" -> ~students'[op.s].exists
      [] OTHER -> TRUE

\* the write that request p's cascade enqueues in the step that commits
EnqueuedApplied(p) ==
    LET c == cas[p]
    IN CASE c.pc \in {"delete_student", "second_delete"} ->
                ~students'[c.student_id].exists
         [] c.pc = "round_loop" /\ c.round > c.numRounds ->
                companies'[c.company_year_id].totalApplied =
                    companies[c.company_year_id].totalApplied - 1
         [] c.pc = "round_loop" /\ c.round <= c.numRounds ->
                \A k \in LimitOne(RowsOf(c.company_year_id, c.round, c.student_id)) :
                    <<c.company_year_id, c.round, c.student_id, k>> \notin roundData'
         [] OTHER -> TRUE

C24_RetryDecrementsAgain ==
    \A p \in Procs :
        ( /\ cas[p].pc = "returned"
          /\ cas[p].quiet
          /\ cas[p].first.student_id = cas[p].student_id
          /\ cas[p].first.student.exists )
        => LET origin == cas[p].first
               again == cas[p].pre
               s == cas[p].student_id
               cs == origin.student.companyStatus
           IN /\ \A x \in Referenced(cs) :
                    /\ companies[x].totalApplied = again.companies[x].totalApplied - 1
                    /\ again.companies[x].totalApplied
                          = origin.companies[x].totalApplied - 1
                       => companies[x].totalApplied
                             = origin.companies[x].totalApplied - 2
              /\ placements = origin.placements \ {<<x, s>> : x \in Selected(cs)}
              /\ placements = again.placements \ {<<x, s>> : x \in Selected(cs)}
              /\ roundData \subseteq again.roundData
              /\ again.roundData \subseteq origin.roundData
              /\ cas[p].result.roundsDeleted =
                    Cardinality(again.roundData \ roundData)

\* a retry returned after a failed attempt that had committed a batch: a
\* Company-Year ends 2 lower than before the first attempt, and a Placement
\* and rows that were already absent when the retry began are still absent
C24_Witness ==
    \E p \in Procs :
        /\ cas[p].pc = "returned"
        /\ cas[p].quiet
        /\ cas[p].first.student_id = cas[p].student_id
        /\ cas[p].first.student.exists
        /\ \E x \in Referenced(cas[p].first.student.companyStatus) :
              /\ companies[x].totalApplied =
                    cas[p].first.companies[x].totalApplied - 2
              /\ <<x, cas[p].student_id>> \in cas[p].first.placements
              /\ <<x, cas[p].student_id>> \notin cas[p].pre.placements
        /\ cas[p].first.roundData \ cas[p].pre.roundData # {}

\* ------------------------------------------- properties: batching of the tail
\* C25: the year updates and the student deletion are batched like the
\* per-company writes: no cascade stands between two enqueues with K or more
\* writes pending, and no batch of more than K writes is handed to commit.
C25_TailBatchingDiscipline ==
    \A p \in Procs :
        /\ Len(cas[p].batch) < K
        /\ cas[p].operation_count < K
        /\ \A i \in DOMAIN cas[p].committed : cas[p].committed[i] <= K

\* C26: once the batch holding the Student deletion has been committed, the
\* cascade commits nothing more and ends: the Student deletion is committed
\* once, in the last batch.
C26_StudentDeletedOnce ==
    [][\A p \in Procs :
        (cas[p].pc = "second_delete" /\ cas'[p].pc # "second_delete")
        => /\ cas'[p].committed = cas[p].committed
           /\ cas'[p].pc = "returned"
      ]_vars

\* ------------------------------------------------ properties: round data rows
\* the rows of student s stored in `rd` under round r of Company-Year x
RowKeys(rd, x, r, s) == {k \in 1..2 : <<x, r, s, k>> \in rd}

\* C27: when a cascade for student S has returned and no other request has
\* written since it started: if every round of the Company-Years listed in
\* S's companyStatus held at most one row of S, none of them holds a row of S
\* any more; roundsDeleted equals the number of rows removed; and no round
\* has lost more than one row.
C27_RoundDataRows ==
    \A p \in Procs :
        (cas[p].pc = "returned" /\ cas[p].quiet)
        => LET s == cas[p].student_id
               before == cas[p].pre.roundData
               listed == {x \in Referenced(cas[p].pre.student.companyStatus) :
                            rounds[x] > 0}
               Rounds(x) == 1..rounds[x]
           IN /\ (\A x \in listed : \A r \in Rounds(x) :
                     Cardinality(RowKeys(before, x, r, s)) <= 1)
                 => \A x \in listed : \A r \in Rounds(x) :
                       RowKeys(roundData, x, r, s) = {}
              /\ cas[p].result.roundsDeleted = Cardinality(before \ roundData)
              /\ \A x \in CompanyIds : \A r \in 1..rounds[x] : \A u \in StudentIds :
                    Cardinality(RowKeys(before, x, r, u) \ RowKeys(roundData, x, r, u))
                      <= 1

\* a cascade returned for a student that held one row in each of two rounds
\* of a listed Company-Year, and none of them is left
C27_Witness ==
    \E p \in Procs :
        /\ cas[p].pc = "returned"
        /\ cas[p].quiet
        /\ cas[p].result.roundsDeleted >= 2
        /\ LET s == cas[p].student_id
               listed == Referenced(cas[p].pre.student.companyStatus)
           IN /\ \A x \in listed : \A r \in 1..rounds[x] :
                     /\ Cardinality(RowKeys(cas[p].pre.roundData, x, r, s)) <= 1
                     /\ RowKeys(roundData, x, r, s) = {}
              /\ \E x \in listed :
                     /\ RowKeys(cas[p].pre.roundData, x, 1, s) # {}
                     /\ RowKeys(cas[p].pre.roundData, x, 2, s) # {}

\* a cascade returned for a student that held two rows in one round: one of
\* the two is left
C27_WitnessTwoRows ==
    \E p \in Procs :
        /\ cas[p].pc = "returned"
        /\ cas[p].quiet
        /\ \E x \in Referenced(cas[p].pre.student.companyStatus) :
              /\ Cardinality(RowKeys(cas[p].pre.roundData, x, 1, cas[p].student_id)) = 2
              /\ Cardinality(RowKeys(roundData, x, 1, cas[p].student_id)) = 1

\* ------------------------------------------------------- properties: the frame
\* C28: wherever a cascade for student S stands, with no other request having
\* written since it started, every Company-Year not listed in S's
\* companyStatus and every Year not named there is as it was, and so is every
\* Placement and RoundData document that is of another student or lies
\* under a Company-Year not listed (rows of S there remain after the cascade
\* has returned); and no step of a cascade changes another Student document,
\* a rounds collection or the SystemStats record.
C28_CascadeFrame ==
    /\ [](\A p \in Procs :
            ( /\ cas[p].pc \notin {"idle", "off", "raised"}
              /\ cas[p].quiet
              /\ cas[p].pre.student.exists )
            => LET s == cas[p].student_id
                   before == cas[p].pre
                   listed == Referenced(before.student.companyStatus)
                   named == YearsNamed(before.student.companyStatus)
               IN /\ \A x \in CompanyIds \ listed :
                        companies[x] = before.companies[x]
                  /\ \A y \in YearIds \ named : years[y] = before.years[y]
                  /\ placements \subseteq before.placements
                  /\ roundData \subseteq before.roundData
                  /\ \A pl \in before.placements :
                        (pl[1] \notin listed \/ pl[2] # s) => pl \in placements
                  /\ \A row \in before.roundData :
                        (row[1] \notin listed \/ row[3] # s) => row \in roundData)
    /\ [][\A p \in Procs :
            ( /\ cas[p].pc \notin {"idle", "off"}
              /\ cas'[p].pc # cas[p].pc \/ cas'[p].round # cas[p].round )
            => /\ \A u \in StudentIds \ {cas[p].student_id} :
                     students'[u] = students[u]
               /\ UNCHANGED <<rounds, systemStats, usedIds>>
       ]_vars

\* a cascade returned for a student with a placement and a row under
\* Company-Years its companyStatus does not list: both are still stored,
\* beside another student and an unlisted Company-Year
C28_Witness ==
    \E p \in Procs :
        /\ cas[p].pc = "returned"
        /\ cas[p].quiet
        /\ Referenced(cas[p].pre.student.companyStatus) # {}
        /\ \E x \in CompanyIds \ Referenced(cas[p].pre.student.companyStatus) :
              /\ companies[x].exists
              /\ <<x, cas[p].student_id>> \in placements
              /\ <<x, 1, cas[p].student_id, 1>> \in roundData
        /\ \E u \in StudentIds \ {cas[p].student_id} : students[u].exists
        /\ ~students[cas[p].student_id].exists

\* ------------------------------------------------ properties: entries without year
\* C29: when a cascade has returned and no other request has written since
\* it started: companiesAffected counts every companyStatus entry; a
\* Company-Year whose entry has no year has totalApplied one less (and
\* totalPlaced, when selected), its placement of the student gone and each of
\* its rounds one row of the student less; a Year that no entry names is as
\* it was; and yearsAffected is the number of distinct years in the entries.
C29_EntryWithoutYear ==
    \A p \in Procs :
        (cas[p].pc = "returned" /\ cas[p].quiet)
        => LET s == cas[p].student_id
               before == cas[p].pre
               cs == before.student.companyStatus
               listed == Referenced(cs)
               yearless == {x \in listed : cs[x].year = NoYear}
           IN /\ cas[p].result.companiesAffected = Cardinality(listed)
              /\ \A x \in yearless :
                    /\ companies[x].totalApplied =
                          before.companies[x].totalApplied - 1
                    /\ companies[x].totalPlaced =
                          before.companies[x].totalPlaced
                            - (IF cs[x].finalSelection THEN 1 ELSE 0)
                    /\ cs[x].finalSelection => <<x, s>> \notin placements
                    /\ \A r \in 1..rounds[x] :
                          Cardinality(RowKeys(roundData, x, r, s)) =
                            Max(0, Cardinality(RowKeys(before.roundData, x, r, s)) - 1)
              /\ \A y \in YearIds :
                    (\A x \in listed : cs[x].year # y) => years[y] = before.years[y]
              /\ cas[p].result.yearsAffected =
                    Cardinality({cs[x].year : x \in listed \ yearless})

\* a cascade returned for a student with one entry without a year and one of
\* the year 2026: the first Company-Year is decremented, the Year it
\* belongs to is untouched and yearsAffected is 1
C29_Witness ==
    \E p \in Procs :
        /\ cas[p].pc = "returned"
        /\ cas[p].quiet
        /\ cas[p].result.companiesAffected = 2
        /\ cas[p].result.yearsAffected = 1
        /\ \E x \in Referenced(cas[p].pre.student.companyStatus) :
              /\ cas[p].pre.student.companyStatus[x].year = NoYear
              /\ companies[x].totalApplied = cas[p].pre.companies[x].totalApplied - 1
              /\ companies[x].year = 2025
        /\ years[2025] = cas[p].pre.years[2025]
        /\ years[2026] # cas[p].pre.years[2026]

\* ------------------------------------------------ properties: skipped decrement
\* the step is the return of a decrement
DecrementReturns ==
    /\ last'.fn = "decrement_stat"
    /\ last' # last
    /\ last' # [last EXCEPT !.quiet = FALSE]

\* the decrement that returns in the step issued no write when it was by a
\* positive amount and found the record with the field at 0 or without the
\* field, and otherwise wrote max(0, current - amount) and restamped
\* lastUpdated
SkippedOrClamped ==
    IF last'.value < 0 /\ last'.existed /\ last'.current_value = 0
    THEN /\ UNCHANGED <<systemStats, now>>
         /\ last'.outcome = "skipped"
    ELSE /\ systemStats'.exists
         /\ last'.field \in systemStats'.has
         /\ systemStats'.val[last'.field] =
               Max(0, last'.current_value + last'.value)
         /\ systemStats'.lastUpdated = now'
         /\ now' > now

IncrementReturns ==
    /\ last'.fn = "increment_stat"
    /\ last'.value >= 0
    /\ last'.outcome \in {"incremented", "created"}
    /\ last' # last
    /\ last' # [last EXCEPT !.quiet = FALSE]

\* C31: increments are atomic: every increment(field, v) with v >= 0 that
\* returns adds v to the value the field holds at the moment of its write
\* (0 when the record or the field is absent), so that under any interleaving
\* the final value is the initial value plus the sum of the deltas, the
\* calls that create the record lazily included.
C31_IncrementsAtomic ==
    [][IncrementReturns
          => StatGet(systemStats', last'.field)
                = StatGet(systemStats, last'.field) + last'.value]_vars

\* ------------------------------------------- properties: the singleton's life
\* the functions of system_stats.py that write the record
StatsWriters ==
    {"increment_stat", "decrement_stat", "set_stat", "initialize_system_stats"}

\* C32: once the SystemStats record exists it exists in every later state:
\* no step of the counter functions, of the cascade or of the dashboard
\* deletes it; and it comes into existence only in a step in which
\* increment/decrement, set_stat or the rebuild returns.
C32_SingletonLifecycle ==
    [][/\ systemStats.exists => systemStats'.exists
       /\ (~systemStats.exists /\ systemStats'.exists)
             => /\ last'.fn \in StatsWriters
                /\ last'.outcome \in {"created", "set", "initialized"}
                /\ ~last'.existed]_vars

\* the record was created by a decrement at time 1, the cascade committed
\* its counter updates at time 2 and the dashboard answered after that: the
\* record is still there as the decrement left it
C32_Witness ==
    /\ systemStats.exists
    /\ systemStats.lastUpdated = 1
    /\ systemStats.has = {"totalStudents"}
    /\ systemStats.val["totalStudents"] = 0
    /\ ~students["s1"].exists
    /\ companies["c1"].updatedAt = 2
    /\ last.fn = "get_dashboard_summary"
    /\ last.dash.stats.val["totalStudents"] = 0

\* ------------------------------------------- properties: concurrent cascades
\* two distinct requests whose cascades both found the student they delete
FoundPairs ==
    {pq \in Procs \X Procs :
        /\ pq[1] # pq[2]
        /\ cas[pq[1]].found /\ cas[pq[2]].found
        /\ cas[pq[1]].pc \notin {"idle", "off"}
        /\ cas[pq[2]].pc \notin {"idle", "off"}}

Larger(a, b) == IF a >= b THEN a ELSE b

\* C33: two cascades of the same Student that both read the Student
\* document before either commits both succeed (neither raises), and when
\* both have returned every Company-Year the Student referenced has
\* totalApplied, and every Year it named has totalStudentsParticipated, 2
\* lower than the cascades found them: nothing serializes them.
C33_SameStudentTwice ==
    \A pq \in FoundPairs :
        LET p == pq[1]
            q == pq[2]
            cs == cas[p].pre.student.companyStatus
        IN cas[p].student_id = cas[q].student_id
           => /\ cas[p].pre = cas[q].pre
              /\ cas[p].pc # "raised" /\ cas[q].pc # "raised"
              /\ (cas[p].pc = "returned" /\ cas[q].pc = "returned")
                    => /\ \A x \in Referenced(cs) :
                             companies[x].totalApplied =
                                cas[p].pre.companies[x].totalApplied - 2
                       /\ \A y \in YearsNamed(cs) :
                             years[y].totalStudentsParticipated =
                                cas[p].pre.years[y].totalStudentsParticipated - 2

\* both cascades of student s1, which references two Company-Years of one
\* Year, have returned with the same summary
C33_Witness ==
    /\ cas["p1"].pc = "returned" /\ cas["p2"].pc = "returned"
    /\ cas["p1"].student_id = "s1" /\ cas["p2"].student_id = "s1"
    /\ cas["p1"].result = cas["p2"].result
    /\ cas["p1"].result.companiesAffected = 2
    /\ companies["c1"].totalApplied = cas["p1"].pre.companies["c1"].totalApplied - 2
    /\ companies["c2"].totalApplied = cas["p1"].pre.companies["c2"].totalApplied - 2
    /\ years[2025].totalStudentsParticipated =
          cas["p2"].pre.years[2025].totalStudentsParticipated - 2

\* C34: two cascades of different Students, in any interleaving, that both
\* returned have lowered totalApplied of every Company-Year both Students
\* referenced, and totalStudentsParticipated of every Year both named, by
\* exactly 2 from the value the earlier of them found: the counter updates
\* are atomic adds and no decrement is lost.
C34_TwoStudentsNoLostDecrement ==
    \A pq \in FoundPairs :
        LET p == pq[1]
            q == pq[2]
            csp == cas[p].pre.student.companyStatus
            csq == cas[q].pre.student.companyStatus
        IN (/\ cas[p].student_id # cas[q].student_id
            /\ cas[p].pc = "returned" /\ cas[q].pc = "returned")
           => /\ \A x \in Referenced(csp) \cap Referenced(csq) :
                    companies[x].totalApplied =
                       Larger(cas[p].pre.companies[x].totalApplied,
                              cas[q].pre.companies[x].totalApplied) - 2
              /\ \A y \in YearsNamed(csp) \cap YearsNamed(csq) :
                    years[y].totalStudentsParticipated =
                       Larger(cas[p].pre.years[y].totalStudentsParticipated,
                              cas[q].pre.years[y].totalStudentsParticipated) - 2

\* the cascades of s1 and s2, both started before either committed, have
\* returned: the Company-Year and the Year they share are 2 lower
C34_Witness ==
    /\ cas["p1"].pc = "returned" /\ cas["p2"].pc = "returned"
    /\ cas["p1"].student_id = "s1" /\ cas["p2"].student_id = "s2"
    /\ cas["p1"].pre.companies = cas["p2"].pre.companies
    /\ cas["p1"].pre.years = cas["p2"].pre.years
    /\ cas["p1"].pre.student.companyStatus["c1"].year = 2025
    /\ companies["c1"].totalApplied = cas["p1"].pre.companies["c1"].totalApplied - 2
    /\ years[2025].totalStudentsParticipated =
          cas["p1"].pre.years[2025].totalStudentsParticipated - 2

\* ------------------------------------------- properties: the rebuilt record
\* the record a rebuild stored, as the rebuild that returned last wrote it
Rebuilt == last.result.val

\* C35: the record rebuildFromSource() stores satisfies totalPlaced +
\* totalNotPlaced = totalStudents, every Student whose currentStatus is not
\* 'placed' (a missing or an unknown status included) being counted as not
\* placed, and completedCompanies + runningCompanies <= totalCompanies.
C35_RebuiltRecordSums ==
    (last.fn = "initialize_system_stats" /\ last.outcome = "initialized")
       => /\ Rebuilt["totalPlaced"] + Rebuilt["totalNotPlaced"]
                = Rebuilt["totalStudents"]
          /\ Rebuilt["totalNotPlaced"] =
                Cardinality({s \in StudentIds :
                    students[s].exists /\ students[s].currentStatus # "placed"})
          /\ Rebuilt["completedCompanies"] + Rebuilt["runningCompanies"]
                <= Rebuilt["totalCompanies"]
          /\ \A f \in CounterFields : systemStats.val[f] = Rebuilt[f]

\* a rebuild returned over a student without a currentStatus and a company
\* of an unknown status: the student is counted as not placed, the company
\* in neither of the two status counters
C35_Witness ==
    /\ last.fn = "initialize_system_stats"
    /\ last.outcome = "initialized"
    /\ \E s \in StudentIds :
          students[s].exists /\ students[s].currentStatus = "none"
    /\ Rebuilt["totalNotPlaced"] = 1
    /\ Rebuilt["totalStudents"] = 2
    /\ Rebuilt["completedCompanies"] + Rebuilt["runningCompanies"]
          < Rebuilt["totalCompanies"]
    /\ systemStats.val = [f \in Fields |->
                            IF f \in CounterFields THEN Rebuilt[f] ELSE 0]

\* ------------------------------------------- properties: the read-only dashboard
\* the step is one of request p's get_dashboard_summary
DashboardStep(p) ==
    /\ call'[p].pc # call[p].pc
    /\ \/ call[p].fn = "get_dashboard_summary"
       \/ call'[p].fn = "get_dashboard_summary"

\* the response repeats the repair: the request before it took the repair
\* branch, and nothing was written from the start of that request to the
\* end of this one
RepairRepeats ==
    (/\ last.fn = "get_dashboard_summary"
     /\ last.dash.again
     /\ last.quiet)
       => /\ last.dash.repaired
          /\ years[CurrentYear].exists => years[CurrentYear].cwKeys = {}

\* C36: get_dashboard_summary writes nothing in any branch: the synthesized
\* Year and the companyWise map rebuilt on the repair path are returned but
\* not stored, so a request that follows a repairing one takes the repair
\* branch again as long as no other writer has filled the Year document.
C36_DashboardWritesNothing ==
    /\ [][\A p \in Procs :
             DashboardStep(p)
                => UNCHANGED <<students, usedIds, companies, years, systemStats,
                               placements, rounds, roundData, now>>]_vars
    /\ []RepairRepeats

\* two requests in a row rebuilt a non-empty companyWise map for a current
\* year whose document is absent, and the document is absent still
C36_Witness ==
    /\ last.fn = "get_dashboard_summary"
    /\ last.dash.again
    /\ last.quiet
    /\ last.dash.repaired
    /\ ~last.dash.yearFound
    /\ last.dash.cwKeys # {}
    /\ ~years[CurrentYear].exists

\* the same with the current year's document stored with an empty
\* companyWise, which the response does not fill
C36_WitnessStored ==
    /\ last.fn = "get_dashboard_summary"
    /\ last.dash.again
    /\ last.dash.repaired
    /\ last.dash.yearFound
    /\ last.dash.cwKeys # {}
    /\ years[CurrentYear].exists
    /\ years[CurrentYear].cwKeys = {}

\* ------------------------------------------- properties: refresh tokens
\* the step is a response of POST /api/auth/refresh
RefreshReturns ==
    /\ auth'.resp.fn = "refresh"
    /\ auth'.resp # auth.resp

\* the token the most recent login of user u stored, NoToken before any
MostRecent(u) ==
    IF issued[u] = <<>> THEN NoToken ELSE issued[u][Len(issued[u])]

\* the tokens the earlier logins of user u returned
EarlierLogins(u) == {issued[u][i] : i \in 1..(Len(issued[u]) - 1)}

\* the refresh tokens POST /api/auth/refresh accepts for user u now
Accepted(u) ==
    {tok \in Presentable : tok.user_id = u /\ RefreshOutcome(tok)[1] = "200"}

\* the refresh that returns in the step answers 200 only to the token that
\* the most recent login of its user stored
OnlyMostRecent ==
    (RefreshReturns /\ auth'.resp.status = "200")
       => LET tok == auth'.resp.presented
          IN /\ tok.signed
             /\ tok = users[tok.user_id].refresh_token
             /\ tok = MostRecent(tok.user_id)

\* the refresh that returns in the step answers 401 to a token that an
\* earlier login of its user returned
EarlierRejected ==
    (/\ RefreshReturns
     /\ auth'.resp.presented.signed
     /\ auth'.resp.presented \in EarlierLogins(auth'.resp.presented.user_id))
       => auth'.resp.status = "401"

\* the same for a token that differs from the most recent login's
StaleRejected ==
    (/\ RefreshReturns
     /\ auth'.resp.presented.signed
     /\ auth'.resp.presented # MostRecent(auth'.resp.presented.user_id))
       => auth'.resp.status = "401"

\* C37 as amended: at most one refresh token per user is accepted at any
\* time; a refresh answers 200 only when the presented token equals the
\* token stored for its user by that user's most recent login; and a token
\* returned by an earlier login is answered 401 unless it is identical to
\* the most recent login's token (two logins of one user within the same
\* second are given the same token).
C37_OneAcceptedToken ==
    /\ [](\A u \in UserIds : Cardinality(Accepted(u)) <= 1)
    /\ [][OnlyMostRecent /\ StaleRejected]_vars

\* C37 as stated: a refresh token returned by an earlier login of the same
\* user is answered 401, whatever the most recent login returned.
C37_EarlierLoginRejected ==
    [][EarlierRejected]_vars

\* after two logins of one user in different seconds, the refresh presenting
\* the first login's token was answered 401 while the second login's token
\* is the one accepted
C37_Witness ==
    \E u \in UserIds :
        /\ Len(issued[u]) = 2
        /\ issued[u][1] # issued[u][2]
        /\ auth.resp.fn = "refresh"
        /\ auth.resp.presented = issued[u][1]
        /\ jwt_decode(issued[u][1], now) = "ok"
        /\ auth.resp.status = "401"
        /\ auth.resp.error = "Invalid refresh token"
        /\ Accepted(u) = {issued[u][2]}

\* the refresh presenting the most recent login's token was answered 200
C37_WitnessAccepted ==
    \E u \in UserIds :
        /\ Len(issued[u]) = 2
        /\ auth.resp.fn = "refresh"
        /\ auth.resp.presented = issued[u][2]
        /\ auth.resp.status = "200"

====
